---- MODULE Spec2Model ----
(***************************************************************************)
(* Model of the zrok tunnel helper: the Zrok API client (src/zrok_api.py   *)
(* and its variant src/utils.py), the share-token lookups, the local       *)
(* connection state store of src/local/connect.py, the SSH client          *)
(* configuration, the access process with its PID file, and the zrok       *)
(* command line behind Zrok.disable and Zrok.enable.                       *)
(*                                                                         *)
(* Strings are sequences of one-character strings, so that prefix, suffix, *)
(* substring and lower-casing are computed and not assumed.                *)
(***************************************************************************)
EXTENDS Integers, Sequences, FiniteSets, TLC

VARIABLES
    client,        \* the object produced by the latest Zrok(...) call, or NoClient
    call,          \* the operation in progress, or the last one finished
    pc,            \* "idle", or "request" while an operation waits for an HTTP response
    outcomes,      \* what each HTTP attempt of the current operation met, in order
    sleeps,        \* the time.sleep delays of the current operation, in order
    last_error,    \* _request's last_error: "none", "HTTPError" or "URLError"
    procs,         \* subprocesses launched by the current operation
    reqResult,     \* how _request ended inside the current operation
    result,        \* how the current operation ended
    environments,  \* the value get_environments() hands to a lookup
    cfgFile,       \* the JSON config file: absent, or its text as a token sequence
    cfgMode,       \* permission bits of the config file (0 while it is absent)
    cfgWritten,    \* who wrote the config file last, and what
    cfgResult,     \* how the last load_config / save_config ended
    cfgCall,       \* the last config operation and its argument
    sshFile,       \* ~/.ssh/config: absent, or its text as a sequence of lines
    sshMode,       \* permission bits of ~/.ssh/config (0 while it is absent)
    sshCall,       \* the last update_ssh_config call, with the file it found
    sshResult,     \* how the last update_ssh_config ended
    pidFile,       \* ~/.kaggle_zrok_access.pid: absent, or its text
    running,       \* process ids of the user's live 'zrok access' processes
    signalled,     \* the PIDs the last call passed to os.kill, in order
    printed,       \* the messages the last call printed, in order
    pidCall,       \* the last stop_zrok_access / start_zrok_access call
    pidResult,     \* how that call ended
    lastStarted,   \* the access process start_zrok_access recorded last
    earlier,       \* the access processes it had recorded before that one
    zrokInstalled, \* whether the zrok binary is on the PATH
    localEnabled,  \* whether the local zrok environment is enabled
    cliCall,       \* the last Zrok.disable / Zrok.enable call and what it met
    cliRuns,       \* the zrok commands that call ran, in order
    remotePhase,   \* the remote phase of that call: attempted or not, zIds deleted
    cliResult,     \* how that call ended
    entry,         \* the orchestrator entry point that is running
    cred,          \* the credential it was given (--token / ZROK_TOKEN)
    tunnelMode,    \* TUNNEL_MODE of the notebook script
    mpc,           \* the call main makes next
    trace,         \* the calls main has made so far, in order
    shareProc,     \* the 'zrok share' subprocess: none, running, terminated
    mainResult,    \* how the command ended, NoExit while it runs
    scraper,       \* the function reading the share subprocess's output
    tpc,           \* the main thread: before start, started, inside stop, stopped
    rpc,           \* the reader thread's position in the scraping function
    tRunning,      \* TunnelManager._running
    tProcess,      \* whether self.process (process) holds the Popen handle
    curLine,       \* the output line the reader holds
    discovered,    \* share_token / hostname: None until discovered
    assigned,      \* every value the reader assigned to it, in order
    infos,         \* how often the connection information was printed
    echoed,        \* the output lines the reader printed, in order
    nread,         \* how many output lines the reader has taken
    lateLines,     \* lines printed or scraped after stop() had returned
    archive,       \* /tmp/zrok.tar.gz: absent, partial or complete
    ipc,           \* idle, or probing while a 'zrok version' probe is awaited
    probeFate,     \* whether the awaited probe process will ever exit
    instCall,      \* the last Zrok.is_installed / Zrok.install call
    instResult,    \* how that call ended, NoResult while it has not
    cpc,           \* connect_private: idle, connecting (inside try), ended
    cCall,         \* the last connect_private call and what it met
    cResult,       \* how that call ended
    remoteEnv,     \* whether the service holds an environment for self.name
    seqCall,       \* the last disable(); enable() sequence and what it met
    seqResult      \* how that sequence ended

vars == <<client, call, pc, outcomes, sleeps, last_error, procs, reqResult,
          result, environments, cfgFile, cfgMode, cfgWritten, cfgResult, cfgCall,
          sshFile, sshMode, sshCall, sshResult,
          pidFile, running, signalled, printed, pidCall, pidResult, lastStarted,
          earlier, zrokInstalled, localEnabled, cliCall, cliRuns, remotePhase, cliResult,
          entry, cred, tunnelMode, mpc, trace, shareProc, mainResult,
          scraper, tpc, rpc, tRunning, tProcess, curLine, discovered, assigned, infos,
          echoed, nread, lateLines,
          archive, ipc, probeFate, instCall, instResult, cpc, cCall, cResult,
          remoteEnv, seqCall, seqResult>>

apiVars == <<client, call, pc, outcomes, sleeps, last_error, procs, reqResult, result>>
cfgVars == <<cfgFile, cfgMode, cfgWritten, cfgResult, cfgCall>>
sshVars == <<sshFile, sshMode, sshCall, sshResult>>
pidVars == <<pidFile, running, signalled, printed, pidCall, pidResult, lastStarted,
            earlier>>
cliVars == <<zrokInstalled, localEnabled, cliCall, cliRuns, remotePhase, cliResult>>
mainVars == <<entry, cred, tunnelMode, mpc, trace, shareProc, mainResult>>
instVars == <<archive, ipc, probeFate, instCall, instResult>>
conVars == <<cpc, cCall, cResult>>
seqVars == <<remoteEnv, seqCall, seqResult>>
baseVars == <<apiVars, environments, cfgVars, sshVars, pidVars, cliVars, instVars,
             conVars, seqVars>>
mainRest == <<entry, cred, tunnelMode, mpc, trace, mainResult>>
tunVars == <<scraper, tpc, rpc, tRunning, tProcess, curLine, discovered, assigned, infos,
             echoed, nread, lateLines>>
orchVars == <<mainVars, tunVars, instVars, conVars, seqVars>>

(***************************************************************************)
(* Bounds                                                                  *)
(***************************************************************************)
MaxTokenLen == 3      \* longest credential string tried
MaxNameLen == 1       \* longest environment name / description tried
MaxEnvs == 2          \* most environments in a listing
MaxShares == 2        \* most shares in a listing, over all its environments
MaxRespEnvs == 1      \* most environments in an HTTP response body of Spec
MaxUserBlocks == 1    \* most Host blocks in the ~/.ssh/config the user wrote

(***************************************************************************)
(* Strings                                                                 *)
(***************************************************************************)
SeqsUpTo(S, n) == UNION {[1..k -> S] : k \in 0..n}

startswith(s, c) == Len(s) >= 1 /\ s[1] = c
endswith(s, c) == Len(s) >= 1 /\ s[Len(s)] = c

\* str.lower() on the letters used here
LowerChar(c) ==
    LET upper == <<"A", "B", "C", "D", "E", "F", "G", "H", "I", "J", "K", "L", "M",
                   "N", "O", "P", "Q", "R", "S", "T", "U", "V", "W", "X", "Y", "Z">>
        lowerc == <<"a", "b", "c", "d", "e", "f", "g", "h", "i", "j", "k", "l", "m",
                    "n", "o", "p", "q", "r", "s", "t", "u", "v", "w", "x", "y", "z">>
    IN  IF \E i \in 1..26 : upper[i] = c
        THEN lowerc[CHOOSE i \in 1..26 : upper[i] = c]
        ELSE c
lower(s) == [i \in 1..Len(s) |-> LowerChar(s[i])]

\* "sub in s" of Python: sub occurs as a contiguous run of s
Contains(s, sub) ==
    \E i \in 0..(Len(s) - Len(sub)) :
        \A j \in 1..Len(sub) : s[i + j] = sub[j]

\* str(n) for a non-negative integer, as f"{port}" formats it
RECURSIVE IntToStr(_)
IntToStr(n) ==
    LET d == n % 10
        c == <<"0", "1", "2", "3", "4", "5", "6", "7", "8", "9">>[d + 1]
    IN  IF n < 10 THEN <<c>> ELSE Append(IntToStr(n \div 10), c)

(***************************************************************************)
(* Results of operations                                                   *)
(***************************************************************************)
NoResult == [kind |-> "none"]
Return(v) == [kind |-> "return", val |-> v]
Raise(e) == [kind |-> "raise", exc |-> e]

Returned(r) == r.kind = "return"
Raised(r) == r.kind = "raise"

(***************************************************************************)
(* Zrok.__init__                                                           *)
(***************************************************************************)
NoClient == [exists |-> FALSE]

\* a credential argument: None, or a string
NoneToken == [isNone |-> TRUE, s |-> <<>>]
StrToken(s) == [isNone |-> FALSE, s |-> s]

TokenChars == {"<", ">", "t"}
Tokens == {NoneToken} \cup {StrToken(s) : s \in SeqsUpTo(TokenChars, MaxTokenLen)}

NameChars == {"K", "k"}
Names == SeqsUpTo(NameChars, MaxNameLen)

Variants == {"api", "utils"}

\* "not token": None and "" are falsy
Falsy(token) == token.isNone \/ token.s = <<>>

RejectsStartOnly(token) ==
    Falsy(token) \/ startswith(token.s, "<")

\* the condition of the raise in __init__
Rejects(token) ==
    Falsy(token) \/ (startswith(token.s, "<") /\ endswith(token.s, ">"))

Construct(variant, token, name) ==
    /\ pc = "idle"
    /\ call' = [op |-> "__init__", variant |-> variant, token |-> token, name |-> name]
    /\ IF Rejects(token)
         THEN /\ client' = NoClient
              /\ result' = Raise("ValueError")
         ELSE /\ client' = [exists |-> TRUE, variant |-> variant,
                            token |-> token, name |-> name]
              /\ result' = Return("None")
    /\ outcomes' = <<>>
    /\ sleeps' = <<>>
    /\ procs' = 0
    /\ UNCHANGED <<pc, last_error, reqResult, environments, cfgVars, sshVars, pidVars, cliVars, orchVars>>

(***************************************************************************)
(* The remote listing: what GET /overview describes                        *)
(***************************************************************************)
Localhost == <<"l", "o", "c", "a", "l", "h", "o", "s", "t">>
IpLiteral == <<"1", "0", ".", "0", ".", "0", ".", "1">>
TcpTunnel == <<"t", "c", "p", "T", "u", "n", "n", "e", "l">>
ProxyMode == <<"p", "r", "o", "x", "y">>

Endpoint(host, port) == host \o <<":">> \o IntToStr(port)

\* The shapes of share tried.  An empty string stands for an absent key, which
\* .get(key, "") and .get(key) both make falsy and unequal to any sentinel.
\* The last shape is the one of tests/test_utils.py: a "token" key and no
\* backendMode.
ShareShapes ==
    { [backendMode |-> TcpTunnel, backendProxyEndpoint |-> Endpoint(Localhost, 22), legacy |-> FALSE],
      [backendMode |-> TcpTunnel, backendProxyEndpoint |-> Endpoint(Localhost, 2222), legacy |-> FALSE],
      [backendMode |-> TcpTunnel, backendProxyEndpoint |-> Endpoint(IpLiteral, 22), legacy |-> FALSE],
      [backendMode |-> ProxyMode, backendProxyEndpoint |-> Endpoint(Localhost, 22), legacy |-> FALSE],
      [backendMode |-> <<>>, backendProxyEndpoint |-> Endpoint(Localhost, 22), legacy |-> TRUE] }

\* An environment before its identifiers are filled in.  hasDesc = FALSE is an
\* entry without a description key.
EnvShapes(ms) ==
    { [hasDesc |-> d[1], description |-> d[2], shares |-> ss] :
        d \in ({<<FALSE, <<>> >>} \cup {<<TRUE, n>> : n \in Names}),
        ss \in SeqsUpTo(ShareShapes, ms) }

RECURSIVE TotalShares(_)
TotalShares(l) ==
    IF l = <<>> THEN 0 ELSE Len(Head(l).shares) + TotalShares(Tail(l))

\* zId and share tokens are unique, as the service assigns them
MkShare(sh, i, j) ==
    [backendMode |-> sh.backendMode,
     backendProxyEndpoint |-> sh.backendProxyEndpoint,
     shareToken |-> IF sh.legacy THEN <<>> ELSE <<"s">> \o IntToStr(i) \o IntToStr(j),
     token |-> IF sh.legacy THEN <<"g">> \o IntToStr(i) \o IntToStr(j) ELSE <<>>]

MkEnv(e, i) ==
    [hasDesc |-> e.hasDesc, description |-> e.description,
     zId |-> <<"z">> \o IntToStr(i),
     shares |-> [j \in 1..Len(e.shares) |-> MkShare(e.shares[j], i, j)]]

\* every listing of at most me environments holding at most ms shares in all
Listings(me, ms) ==
    { [i \in 1..Len(l) |-> MkEnv(l[i], i)] :
        l \in {x \in SeqsUpTo(EnvShapes(ms), me) : TotalShares(x) <= ms} }

(***************************************************************************)
(* HTTP: what one urlopen call can meet                                    *)
(***************************************************************************)
\* parsed JSON: an object, with or without the 'environments' key, or a value
\* that is no object (a list, a number)
JsonObj(has, envs) == [t |-> "obj", hasEnvs |-> has, envs |-> envs]
EmptyObj == JsonObj(FALSE, <<>>)
JsonNonObj == [t |-> "nonobj", hasEnvs |-> FALSE, envs |-> <<>>]

\* a response body: empty, not JSON, or JSON text
Body(text, value) == [text |-> text, value |-> value]

ResponseListings == Listings(MaxRespEnvs, 1)

Bodies ==
    {Body("empty", EmptyObj), Body("nonjson", EmptyObj),
     Body("json", EmptyObj), Body("json", JsonNonObj)}
    \cup {Body("json", JsonObj(TRUE, l)) : l \in ResponseListings}

\* "ok": a 2xx response with a body.  "http": urllib.error.HTTPError with a
\* status code.  "urlerror": urllib.error.URLError (DNS, refused connection,
\* connect timeout).  "timeout": socket.timeout while waiting for or reading
\* the response, which urllib does not wrap in URLError.
Outcome(kind, code, body) == [kind |-> kind, code |-> code, body |-> body]

HttpCodes == {401, 404, 500}

Outcomes ==
    {Outcome("ok", 200, b) : b \in Bodies}
    \cup {Outcome("http", c, Body("empty", EmptyObj)) : c \in HttpCodes}
    \cup {Outcome("urlerror", 0, Body("empty", EmptyObj)),
          Outcome("timeout", 0, Body("empty", EmptyObj))}

MAX_RETRIES == 3
RETRY_DELAY == 2

(***************************************************************************)
(* Zrok._request                                                           *)
(***************************************************************************)
\* One pass of the retry loop of src/zrok_api.py, entered with `attempt`
\* (0-based) and ended by outcome o: whether _request is over, how, which
\* delay it slept (0: none) and the new last_error.
StepOf(done, res, sleep, err) == [done |-> done, res |-> res, sleep |-> sleep, err |-> err]

RetryOneMore(attempt, err) ==
    IF attempt < MAX_RETRIES
      THEN StepOf(FALSE, NoResult, RETRY_DELAY * (attempt + 1), err)
      ELSE StepOf(TRUE, Raise("ZrokError"), 0, err)

\* the tail of the loop body: sleep unless this was the last attempt, and
\* raise once the loop is exhausted
Retry(attempt, err) ==
    IF attempt < MAX_RETRIES - 1
      THEN StepOf(FALSE, NoResult, RETRY_DELAY * (attempt + 1), err)
      ELSE StepOf(TRUE, Raise("ZrokError"), 0, err)

ApiStepRetry404(o, attempt, err) ==
    CASE o.kind = "ok" ->
           StepOf(TRUE, IF o.body.text = "json" THEN Return(o.body.value)
                        ELSE Return(EmptyObj), 0, err)
      [] o.kind = "http" /\ o.code = 401 -> StepOf(TRUE, Raise("ZrokError"), 0, err)
      [] o.kind = "http" /\ o.code # 401 -> Retry(attempt, "HTTPError")
      [] o.kind = "urlerror" -> Retry(attempt, "URLError")
      [] o.kind = "timeout" -> StepOf(TRUE, Raise("TimeoutError"), 0, err)

ApiStep(o, attempt, err) ==
    CASE o.kind = "ok" ->
           \* resp.read is a bound method and always truthy, so the body is
           \* always parsed; an empty or non-JSON body raises JSONDecodeError,
           \* which the loop turns into {}
           StepOf(TRUE, IF o.body.text = "json" THEN Return(o.body.value)
                        ELSE Return(EmptyObj), 0, err)
      [] o.kind = "http" /\ o.code = 401 -> StepOf(TRUE, Raise("ZrokError"), 0, err)
      [] o.kind = "http" /\ o.code = 404 -> StepOf(TRUE, Return(EmptyObj), 0, err)
      [] o.kind = "http" /\ o.code \notin {401, 404} -> Retry(attempt, "HTTPError")
      [] o.kind = "urlerror" -> Retry(attempt, "URLError")
      [] o.kind = "timeout" -> StepOf(TRUE, Raise("TimeoutError"), 0, err)

\* _request of src/utils.py: one attempt, only HTTPError is translated
UtilsStep(o, err) ==
    CASE o.kind = "ok" /\ o.body.text = "empty" -> StepOf(TRUE, Return(EmptyObj), 0, err)
      [] o.kind = "ok" /\ o.body.text = "nonjson" -> StepOf(TRUE, Raise("JSONDecodeError"), 0, err)
      [] o.kind = "ok" /\ o.body.text = "json" -> StepOf(TRUE, Return(o.body.value), 0, err)
      [] o.kind = "http" -> StepOf(TRUE, Raise("ZrokError"), 0, err)
      [] o.kind = "urlerror" -> StepOf(TRUE, Raise("URLError"), 0, err)
      [] o.kind = "timeout" -> StepOf(TRUE, Raise("TimeoutError"), 0, err)

(***************************************************************************)
(* get_environments, find_env, delete_env                                  *)
(***************************************************************************)
None == [isNone |-> TRUE]
Some(v) == [isNone |-> FALSE, v |-> v]

\* data.get('environments', []) on an object
EnvironmentsOf(obj) == IF obj.hasEnvs THEN obj.envs ELSE <<>>

\* r is how _request("/overview") ended
get_environments(variant, r) ==
    IF variant = "api"
      THEN \* except ZrokError only
           IF Raised(r) THEN (IF r.exc = "ZrokError" THEN Return(<<>>) ELSE r)
           ELSE IF r.val.t = "obj" THEN Return(EnvironmentsOf(r.val))
                ELSE Raise("AttributeError")
      ELSE \* except Exception, around the request and the .get
           IF Raised(r) THEN Return(<<>>)
           ELSE IF r.val.t = "obj" THEN Return(EnvironmentsOf(r.val))
                ELSE Return(<<>>)

\* item.get("environment", {}).get("description", "")
DescriptionOf(item) == IF item.hasDesc THEN item.description ELSE <<>>

RECURSIVE find_env_last(_, _)
find_env_last(items, name) ==
    IF items = <<>> THEN None
    ELSE LET item == items[Len(items)]
         IN  IF lower(DescriptionOf(item)) = lower(name) THEN Some(item)
             ELSE find_env_last(SubSeq(items, 1, Len(items) - 1), name)

\* the loop of find_env over the list get_environments() returned
RECURSIVE find_env(_, _)
find_env(items, name) ==
    IF items = <<>> THEN None
    ELSE IF lower(DescriptionOf(Head(items))) = lower(name) THEN Some(Head(items))
         ELSE find_env(Tail(items), name)

\* r is how _request("/disable", "POST", ...) ended
delete_env(variant, r) ==
    IF variant = "api"
      THEN IF Raised(r) THEN (IF r.exc = "ZrokError" THEN Return(FALSE) ELSE r)
           ELSE Return(TRUE)
      ELSE IF Raised(r) THEN Return(FALSE) ELSE Return(TRUE)

\* how the operation `c` ends once its request has ended with r
OpResult(c, variant, r) ==
    CASE c.op = "get_environments" -> get_environments(variant, r)
      [] c.op = "find_env" ->
           LET ge == get_environments(variant, r)
           IN  IF Raised(ge) THEN ge ELSE Return(find_env(ge.val, c.name))
      [] c.op = "delete_env" -> delete_env(variant, r)

(***************************************************************************)
(* The API client as a state machine: one step per HTTP attempt            *)
(***************************************************************************)
ZIds == {<<"z">> \o IntToStr(i) : i \in 1..MaxEnvs}

\* entry of an operation of the client, up to its first urlopen
StartCall(c) ==
    /\ call' = c
    /\ pc' = "request"
    /\ outcomes' = <<>>
    /\ sleeps' = <<>>
    /\ last_error' = "none"
    /\ procs' = 0
    /\ reqResult' = NoResult
    /\ result' = NoResult
    /\ UNCHANGED <<client, environments, cfgVars, sshVars, pidVars, cliVars, orchVars>>

GetEnvironments ==
    /\ pc = "idle"
    /\ client.exists
    /\ StartCall([op |-> "get_environments"])

FindEnv(name) ==
    /\ pc = "idle"
    /\ client.exists
    /\ StartCall([op |-> "find_env", name |-> name])

DeleteEnv(zid) ==
    /\ pc = "idle"
    /\ client.exists
    /\ StartCall([op |-> "delete_env", zid |-> zid])

\* urlopen ends with outcome o; the handler runs on to its next urlopen or to
\* its end
Attempt(o) ==
    /\ pc = "request"
    /\ LET st == IF client.variant = "api"
                   THEN ApiStep(o, Len(outcomes), last_error)
                   ELSE UtilsStep(o, last_error)
       IN  /\ outcomes' = Append(outcomes, o)
           /\ sleeps' = IF st.sleep > 0 THEN Append(sleeps, st.sleep) ELSE sleeps
           /\ last_error' = st.err
           /\ IF st.done
                THEN /\ pc' = "idle"
                     /\ reqResult' = st.res
                     /\ result' = OpResult(call, client.variant, st.res)
                ELSE /\ pc' = "request"
                     /\ UNCHANGED <<reqResult, result>>
    /\ UNCHANGED <<client, call, procs, environments, cfgVars, sshVars, pidVars, cliVars, orchVars>>

SpecTokens == {NoneToken, StrToken(<<"t">>)}

(***************************************************************************)
(* Share-token lookups                                                     *)
(***************************************************************************)
Ports == {22, 8080}

ShareMatchesNoMode(share, port) ==
    share.backendProxyEndpoint = Localhost \o <<":">> \o IntToStr(port)

\* backend_mode == "tcpTunnel" and backend_endpoint == f"localhost:{port}"
ShareMatches(share, port) ==
    /\ share.backendMode = TcpTunnel
    /\ share.backendProxyEndpoint = Localhost \o <<":">> \o IntToStr(port)

\* src/utils.py: f":{backend_port}" in backend or backend == f"localhost:{backend_port}"
ShareMatchesLoose(share, port) ==
    \/ Contains(share.backendProxyEndpoint, <<":">> \o IntToStr(port))
    \/ share.backendProxyEndpoint = Localhost \o <<":">> \o IntToStr(port)

\* share.get("shareToken"): None when the key is absent
ShareTokenOf(share) ==
    IF share.shareToken = <<>> THEN None ELSE Some(share.shareToken)

\* src/utils.py: share.get('token') or share.get('shareToken')
TokenOrShareTokenOf(share) ==
    IF share.token # <<>> THEN Some(share.token) ELSE ShareTokenOf(share)

RECURSIVE ScanShares(_, _, _)
ScanShares(shares, port, variant) ==
    IF shares = <<>> THEN None
    ELSE LET share == Head(shares)
         IN  IF variant = "utils"
               THEN IF ShareMatchesLoose(share, port) THEN TokenOrShareTokenOf(share)
                    ELSE ScanShares(Tail(shares), port, variant)
               ELSE IF ShareMatches(share, port) THEN ShareTokenOf(share)
                    ELSE ScanShares(Tail(shares), port, variant)

\* find_share_token of src/zrok_api.py ("api") and of src/utils.py ("utils"),
\* over the list get_environments() returned
find_share_token(items, variant, name, port) ==
    LET env == find_env(items, name)
    IN  IF env.isNone THEN None ELSE ScanShares(env.v.shares, port, variant)

\* the inline scan of zrok_client.main: the exact match, first hit wins
main_share_scan(items, name, port) ==
    LET env == find_env(items, name)
    IN  IF env.isNone THEN None ELSE ScanShares(env.v.shares, port, "main")

LookupDone(c, r) ==
    /\ call' = c
    /\ result' = r
    /\ UNCHANGED <<client, pc, outcomes, sleeps, last_error, procs, reqResult,
                   environments, cfgVars, sshVars, pidVars, cliVars, orchVars>>

LookupFindEnv(variant, name) ==
    /\ pc = "idle"
    /\ LookupDone([op |-> "find_env", variant |-> variant, name |-> name],
                  Return(find_env(environments, name)))

LookupShareToken(variant, name, port) ==
    /\ pc = "idle"
    /\ LookupDone([op |-> "find_share_token", variant |-> variant,
                   name |-> name, port |-> port],
                  Return(find_share_token(environments, variant, name, port)))

MainFindShare(name, port) ==
    /\ pc = "idle"
    /\ LookupDone([op |-> "main", variant |-> "main", name |-> name, port |-> port],
                  Return(main_share_scan(environments, name, port)))

(***************************************************************************)
(* The connection state store: load_config / save_config                   *)
(***************************************************************************)
\* keys and values the program stores (connect_public, interactive_menu)
CfgKeys == {"last_hostname", "last_token", "last_mode"}
CfgValues == {"t1", "public"}

\* a config mapping: a dict from some of the keys to strings
Configs == UNION {[K -> CfgValues] : K \in SUBSET CfgKeys}
EmptyConfig == [k \in {} |-> "t1"]

\* JSON text as a sequence of lexical tokens
Punct(c) == [t |-> "punct", v |-> c]
StrLit(x) == [t |-> "string", v |-> x]

\* the orders in which a dict can hold its keys
KeyOrders(m) ==
    {o \in [1..Cardinality(DOMAIN m) -> DOMAIN m] :
        \A i, j \in 1..Cardinality(DOMAIN m) : o[i] = o[j] => i = j}

RECURSIVE DumpItems(_, _)
DumpItems(m, order) ==
    IF order = <<>> THEN <<>>
    ELSE <<StrLit(Head(order)), Punct(":"), StrLit(m[Head(order)])>>
         \o (IF Tail(order) = <<>> THEN <<>> ELSE <<Punct(",")>>)
         \o DumpItems(m, Tail(order))

\* json.dump(config, f, indent=2) of a dict whose keys are in `order`
json_dump(m, order) == <<Punct("{")>> \o DumpItems(m, order) \o <<Punct("}")>>

\* whether json.load accepts the text: an object of "key": "value" members
JsonWellFormed(text) ==
    /\ Len(text) >= 2
    /\ text[1] = Punct("{")
    /\ text[Len(text)] = Punct("}")
    /\ LET n == Len(text) - 2
       IN  \/ n = 0
           \/ /\ (n + 1) % 4 = 0
              /\ \A i \in 1..n :
                    CASE i % 4 = 1 -> text[i + 1].t = "string"
                      [] i % 4 = 2 -> text[i + 1] = Punct(":")
                      [] i % 4 = 3 -> text[i + 1].t = "string"
                      [] i % 4 = 0 -> text[i + 1] = Punct(",")

\* the dict json.load builds from a well-formed text: for a repeated key the
\* last member wins
JsonValue(text) ==
    LET n == (Len(text) - 1) \div 4
        keyAt(i) == text[4 * i - 2].v
        valAt(i) == text[4 * i].v
        last(k) == CHOOSE i \in 1..n :
                      keyAt(i) = k /\ \A j \in 1..n : keyAt(j) = k => j <= i
    IN  [k \in {keyAt(i) : i \in 1..n} |-> valAt(last(k))]

json_load(text) ==
    IF JsonWellFormed(text) THEN Return(JsonValue(text))
    ELSE Raise("JSONDecodeError")

Mode600 == 384    \* 0o600
Mode644 == 420    \* 0o644: a file created under the usual umask 022

NoFile == [exists |-> FALSE, text |-> <<>>]

CfgInit ==
    /\ cfgFile = NoFile
    /\ cfgMode = 0
    /\ cfgWritten = [by |-> "nobody"]
    /\ cfgResult = NoResult
    /\ cfgCall = [op |-> "none"]

WriteAppend(old, text) == (IF old.exists THEN old.text ELSE <<>>) \o text

\* open(CONFIG_FILE, 'w') ... write: the old content is truncated away
WriteTruncate(old, text) == text

\* the body of load_config
LoadResult(file) ==
    IF file.exists THEN json_load(file.text) ELSE Return(EmptyConfig)

load_config ==
    /\ cfgCall' = [op |-> "load_config"]
    /\ cfgResult' = LoadResult(cfgFile)
    /\ UNCHANGED <<cfgFile, cfgMode, cfgWritten, apiVars, environments, sshVars, pidVars, cliVars, orchVars>>

save_config(config, order) ==
    /\ cfgCall' = [op |-> "save_config", config |-> config]
    /\ cfgFile' = [exists |-> TRUE,
                   text |-> WriteTruncate(cfgFile, json_dump(config, order))]
    /\ cfgMode' = Mode600
    /\ cfgWritten' = [by |-> "save_config", config |-> config,
                      before |-> IF cfgWritten.by = "save_config"
                                   THEN cfgWritten.config ELSE EmptyConfig]
    /\ cfgResult' = Return(None)
    /\ UNCHANGED <<apiVars, environments, sshVars, pidVars, cliVars, orchVars>>

\* texts json.load rejects: what is left of a config's text when its write
\* is cut short (the empty file included)
MalformedTexts ==
    UNION { UNION { {SubSeq(json_dump(m, o), 1, k) : k \in 0..(Len(json_dump(m, o)) - 1)} :
                      o \in KeyOrders(m) } :
              m \in {c \in Configs : Cardinality(DOMAIN c) <= 1} }

\* the file is left with malformed content: a save_config interrupted between
\* open(..., 'w') and the end of json.dump, or an edit made outside the program
CorruptConfig(text) ==
    /\ cfgCall' = [op |-> "external"]
    /\ cfgFile' = [exists |-> TRUE, text |-> text]
    /\ cfgMode' = IF cfgFile.exists THEN cfgMode ELSE Mode644
    /\ cfgWritten' = [by |-> "other"]
    /\ cfgResult' = NoResult
    /\ UNCHANGED <<apiVars, environments, sshVars, pidVars, cliVars, orchVars>>

(***************************************************************************)
(* The SSH client configuration ~/.ssh/config                              *)
(*                                                                         *)
(* The text is the sequence of its lines, as text.split('\n') gives them   *)
(* (so a text ending in a newline has a last line that is empty, and the   *)
(* empty text is one empty line).  A line is a sequence of atoms, each     *)
(* standing for a run of characters: a keyword, a word, " " for one space  *)
(* and "    " for the four-space indentation.                              *)
(***************************************************************************)
IsSpace(a) == a \in {" ", "    ", "\n"}

RECURSIVE lstrip(_)
lstrip(line) ==
    IF line # <<>> /\ IsSpace(Head(line)) THEN lstrip(Tail(line)) ELSE line

RECURSIVE rstrip(_)
rstrip(line) ==
    IF line # <<>> /\ IsSpace(line[Len(line)])
    THEN rstrip(SubSeq(line, 1, Len(line) - 1))
    ELSE line

\* line.strip()
strip(line) == rstrip(lstrip(line))

\* s.startswith(prefix) for a prefix of several atoms
StartsWithSeq(s, prefix) ==
    /\ Len(prefix) <= Len(s)
    /\ SubSeq(s, 1, Len(prefix)) = prefix

IsBlank(line) == strip(line) = <<>>

EmptyText == << <<>> >>

\* a + b for two texts: the last line of a runs on into the first line of b
ConcatText(a, b) ==
    SubSeq(a, 1, Len(a) - 1) \o << a[Len(a)] \o b[1] >> \o Tail(b)

RECURSIVE DropLeadingBlank(_)
DropLeadingBlank(lines) ==
    IF lines # <<>> /\ IsBlank(Head(lines)) THEN DropLeadingBlank(Tail(lines))
    ELSE lines

RECURSIVE DropTrailingBlank(_)
DropTrailingBlank(lines) ==
    IF lines # <<>> /\ IsBlank(lines[Len(lines)])
    THEN DropTrailingBlank(SubSeq(lines, 1, Len(lines) - 1))
    ELSE lines

\* text.rstrip(): trailing white space goes, newlines included
RstripText(text) ==
    LET d == DropTrailingBlank(text)
    IN  IF d = <<>> THEN EmptyText
        ELSE SubSeq(d, 1, Len(d) - 1) \o << rstrip(d[Len(d)]) >>

\* text.strip()
StripText(text) ==
    LET d == DropLeadingBlank(RstripText(text))
    IN  IF d = <<>> THEN EmptyText
        ELSE << lstrip(d[1]) >> \o Tail(d)

Aliases == { <<"kaggle">>, <<"kaggle", "-temp">>, <<"other">> }
Hostnames == { <<"localhost">> }
SshPorts == {22, 9191}
Platforms == {"Linux", "Windows"}

HostLine(alias) == <<"Host", " ">> \o alias
KaggleComment == <<"# Kaggle Remote Connection">>

\* the entry of update_ssh_config in src/local/connect.py
ConnectEntry(alias, hostname, port) ==
    << <<>>,
       KaggleComment \o <<" (auto-generated)">>,
       HostLine(alias),
       <<"    ", "HostName", " ">> \o hostname,
       <<"    ", "User", " ", "root">>,
       <<"    ", "Port", " ">> \o IntToStr(port),
       <<"    ", "StrictHostKeyChecking", " ", "no">>,
       <<"    ", "UserKnownHostsFile", " ", "/dev/null">>,
       <<"    ", "ServerAliveInterval", " ", "60">>,
       <<"    ", "ServerAliveCountMax", " ", "3">>,
       <<"    ", "LogLevel", " ", "ERROR">>,
       <<>> >>

\* the entry of update_ssh_config in src/zrok_client.py
ClientEntry(name, port) ==
    << <<>>,
       HostLine(name),
       <<"    ", "HostName", " ", "127.0.0.1">>,
       <<"    ", "User", " ", "root">>,
       <<"    ", "Port", " ">> \o IntToStr(port),
       <<"    ", "StrictHostKeyChecking", " ", "no">>,
       <<"    ", "UserKnownHostsFile", " ", "/dev/null">>,
       <<"    ", "ServerAliveInterval", " ", "60">>,
       <<>> >>

\* the test the loop of update_ssh_config makes to find the old block
MatchesAlias(line, alias) == StartsWithSeq(strip(line), HostLine(alias))

\* the loop of update_ssh_config over the lines of the existing text
RECURSIVE FilterLines(_, _, _)
FilterLines(lines, alias, skip) ==
    IF lines = <<>> THEN <<>>
    ELSE LET line == Head(lines)
         IN  IF MatchesAlias(line, alias)
             THEN FilterLines(Tail(lines), alias, TRUE)
             ELSE LET skip2 == skip /\ ~StartsWithSeq(strip(line), <<"Host", " ">>)
                      keep == ~skip2 /\ ~StartsWithSeq(strip(line), KaggleComment)
                  IN  (IF keep THEN <<line>> ELSE <<>>)
                          \o FilterLines(Tail(lines), alias, skip2)

NoSshFile == [exists |-> FALSE]
SshText(lines) == [exists |-> TRUE, lines |-> lines]

\* config.read_text() if config.exists() else ""
ExistingText(f) == IF f.exists THEN f.lines ELSE EmptyText

Mode444 == 292
FileModes == {Mode600, Mode644, Mode444}

\* open(path, 'w') succeeds for the owner when the owner-write bit is set,
\* and for root whatever the bits are
Writable(f, mode, root) == ~f.exists \/ root \/ (mode \div 128) % 2 = 1

\* the bits of the file once write_text has run: those it had, or those a
\* new file gets under the usual umask
ModeAfterWrite(f, mode) == IF f.exists THEN mode ELSE Mode644

chmod600Skipped(mode) == mode

\* ssh_config.chmod(0o600)
chmod600(mode) == Mode600

\* update_ssh_config(hostname, port, alias) of src/local/connect.py
ConnectUpdateSshConfig(hostname, port, alias, root) ==
    LET existing == ExistingText(sshFile)
        new_lines == FilterLines(existing, alias, FALSE)
        \* '\n'.join(new_lines): no line at all joins to the empty text
        joined == IF new_lines = <<>> THEN EmptyText ELSE new_lines
        new_config == ConcatText(StripText(joined),
                                 ConnectEntry(alias, hostname, port))
    IN  /\ sshCall' = [op |-> "update_ssh_config", variant |-> "connect",
                       alias |-> alias, hostname |-> hostname, port |-> port,
                       before |-> sshFile, beforeMode |-> sshMode]
        /\ IF Writable(sshFile, sshMode, root)
           THEN /\ sshFile' = SshText(new_config)
                /\ sshMode' = chmod600(ModeAfterWrite(sshFile, sshMode))
                /\ sshResult' = Return("None")
           ELSE /\ sshResult' = Raise("PermissionError")
                /\ UNCHANGED <<sshFile, sshMode>>
        /\ UNCHANGED <<apiVars, environments, cfgVars, pidVars, cliVars, orchVars>>

\* f"Host {name}" in existing
MentionsHost(text, name) ==
    \E i \in 1..Len(text) : Contains(text[i], HostLine(name))

\* update_ssh_config(name, port) of src/zrok_client.py
ClientUpdateSshConfig(name, port, system, root) ==
    LET existing == ExistingText(sshFile)
        absent == ~MentionsHost(existing, name)
        new_config == ConcatText(ConcatText(RstripText(existing), <<<<>>, <<>>>>),
                                 ClientEntry(name, port))
    IN  /\ sshCall' = [op |-> "update_ssh_config", variant |-> "client",
                       alias |-> name, hostname |-> <<"127.0.0.1">>, port |-> port,
                       system |-> system, before |-> sshFile, beforeMode |-> sshMode]
        /\ IF absent /\ ~Writable(sshFile, sshMode, root)
           THEN /\ sshResult' = Raise("PermissionError")
                /\ UNCHANGED <<sshFile, sshMode>>
           ELSE /\ sshFile' = IF absent THEN SshText(new_config) ELSE sshFile
                /\ sshMode' = IF system # "Windows"
                              THEN chmod600(ModeAfterWrite(sshFile, sshMode))
                              ELSE ModeAfterWrite(sshFile, sshMode)
                /\ sshResult' = Return("None")
        /\ UNCHANGED <<apiVars, environments, cfgVars, pidVars, cliVars, orchVars>>

\* chmod run on ~/.ssh/config outside the program
ChmodSsh(mode) ==
    /\ sshFile.exists
    /\ sshMode' = mode
    /\ sshCall' = [op |-> "external"]
    /\ sshResult' = NoResult
    /\ UNCHANGED <<sshFile, apiVars, environments, cfgVars, pidVars, cliVars, orchVars>>

\* chmod run on the JSON config file outside the program, to bits that leave
\* it writable for its owner
ChmodConfig(mode) ==
    /\ cfgFile.exists
    /\ cfgMode' = mode
    /\ cfgCall' = [op |-> "external"]
    /\ cfgResult' = NoResult
    /\ UNCHANGED <<cfgFile, cfgWritten, apiVars, environments, sshVars, pidVars, cliVars, orchVars>>

\* what ~/.ssh/config holds before the program first touches it: nothing, or
\* blocks the user wrote
UserBlock(alias, shape) ==
    IF shape = "plain"
    THEN << HostLine(alias),
            <<"    ", "HostName", " ", "old.example.com">>,
            <<"    ", "Port", " ", "2", "2", "2", "2">> >>
    ELSE << HostLine(alias),
            <<"    ", "HostName", " ", "old.example.com">>,
            <<>>,
            <<"    ", "# note">>,
            <<"    ", "Port", " ", "2", "2", "2", "2">> >>

RECURSIVE FlattenBlocks(_)
FlattenBlocks(bs) ==
    IF bs = <<>> THEN <<>>
    ELSE Head(bs) \o << <<>> >> \o FlattenBlocks(Tail(bs))

UserTexts(n) ==
    LET blocks == { UserBlock(a, s) : a \in Aliases, s \in {"plain", "noted"} }
    IN  { FlattenBlocks(bs) : bs \in SeqsUpTo(blocks, n) \ {<<>>} }

SshInit ==
    /\ sshFile = NoSshFile
    /\ sshMode = 0
    /\ sshCall = [op |-> "none"]
    /\ sshResult = NoResult

(***************************************************************************)
(* The access process and its PID file (src/local/connect.py)              *)
(***************************************************************************)
ZrokPids == {7, 8}        \* process ids a 'zrok access' process of the user can get
ForeignPid == 9           \* a live process the user may not signal

DigitVal(c) == CHOOSE d \in 0..9 : IntToStr(d) = <<c>>

RECURSIVE StrToInt(_)
StrToInt(s) ==
    IF Len(s) = 1 THEN DigitVal(s[1])
    ELSE 10 * StrToInt(SubSeq(s, 1, Len(s) - 1)) + DigitVal(s[Len(s)])

\* int(text.strip()) on the texts used here: a run of digits parses, anything
\* else raises ValueError
ParseInt(text) ==
    LET s == strip(text)
        digits == {"0", "1", "2", "3", "4", "5", "6", "7", "8", "9"}
    IN  IF s # <<>> /\ \A i \in 1..Len(s) : s[i] \in digits
        THEN Return(StrToInt(s))
        ELSE Raise("ValueError")

NoPidFile == [exists |-> FALSE]
PidText(text) == [exists |-> TRUE, text |-> text]

\* what the PID file can hold: what the program wrote for a process, the same
\* with a newline after it, and content that is no integer
PidContents ==
    {IntToStr(p) : p \in ZrokPids \cup {ForeignPid}}
        \cup {<<"7", "\n">>, <<"x">>, <<>>}

\* os.kill(pid, signal.SIGTERM)
Kill(pid, live, root) ==
    IF pid \in live THEN Return("None")
    ELSE IF pid = ForeignPid
         THEN IF root THEN Return("None") ELSE Raise("PermissionError")
         ELSE Raise("ProcessLookupError")

StopCatchesValueErrorOnly(e) == e = "ValueError"

\* except (ProcessLookupError, ValueError): pass
StopCatches(e) == e \in {"ProcessLookupError", "ValueError"}

\* the process a PID file names, None when it names none
Recorded(file) ==
    IF file.exists /\ Returned(ParseInt(file.text))
    THEN Some(ParseInt(file.text).val)
    ELSE None

StopEffectSparesProcesses(file, live, root, pkillInstalled) ==
    [file |-> NoPidFile, running |-> live, signalled |-> <<>>, printed |-> <<>>,
     pkill |-> FALSE, result |-> Return("None")]

\* the body of stop_zrok_access: what it leaves of the PID file and of the
\* access processes, the PIDs it signalled, what it printed, and how it ended
StopEffect(file, live, root, pkillInstalled) ==
    LET parsed == IF file.exists THEN ParseInt(file.text) ELSE NoResult
        killed == IF Returned(parsed) THEN Kill(parsed.val, live, root) ELSE parsed
        escaped == Raised(killed) /\ ~StopCatches(killed.exc)
        sent == IF Returned(parsed) THEN <<parsed.val>> ELSE <<>>
        afterKill == IF Returned(killed) THEN live \ {parsed.val} ELSE live
        said == IF Returned(killed)
                   THEN << <<"Stopped zrok access (PID: ">> \o IntToStr(parsed.val) \o <<")">> >>
                   ELSE <<>>
    IN  IF escaped
        THEN [file |-> file, running |-> live, signalled |-> sent,
              printed |-> said, pkill |-> FALSE, result |-> killed]
        ELSE IF ~pkillInstalled
             THEN [file |-> NoPidFile, running |-> afterKill, signalled |-> sent,
                   printed |-> said, pkill |-> FALSE,
                   result |-> Raise("FileNotFoundError")]
             ELSE [file |-> NoPidFile, running |-> {}, signalled |-> sent,
                   printed |-> said, pkill |-> TRUE, result |-> Return("None")]

stop_zrok_access(root, pkillInstalled) ==
    LET e == StopEffect(pidFile, running, root, pkillInstalled)
    IN  /\ pidCall' = [op |-> "stop_zrok_access", before |-> pidFile,
                       pkillInstalled |-> pkillInstalled]
        /\ pidFile' = e.file
        /\ running' = e.running
        /\ signalled' = e.signalled
        /\ printed' = e.printed
        /\ pidResult' = e.result
        /\ UNCHANGED <<lastStarted, earlier, apiVars, environments, cfgVars, sshVars,
                       cliVars, orchVars>>

\* the body of start_zrok_access: stop_zrok_access(), then Popen of
\* 'zrok access private' as process pid, then the write of str(process.pid)
StartEffect(file, live, pid, root, pkillInstalled, hasZrok) ==
    LET e == StopEffect(file, live, root, pkillInstalled)
    IN  IF Raised(e.result)
        THEN [file |-> e.file, running |-> e.running, signalled |-> e.signalled,
              printed |-> e.printed, result |-> e.result]
        ELSE IF ~hasZrok
             THEN [file |-> e.file, running |-> e.running, signalled |-> e.signalled,
                   printed |-> e.printed, result |-> Raise("FileNotFoundError")]
             ELSE [file |-> PidText(IntToStr(pid)), running |-> e.running \cup {pid},
                   signalled |-> e.signalled,
                   printed |-> Append(e.printed,
                       <<"zrok access started (PID: ">> \o IntToStr(pid) \o <<")">>),
                   result |-> Return(pid)]

\* the processes recorded before the one recorded last
Earlier(last, early, r) ==
    IF Returned(r) /\ ~last.isNone THEN early \cup {last.v} ELSE early

start_zrok_access(pid, root, pkillInstalled, hasZrok) ==
    LET s == StartEffect(pidFile, running, pid, root, pkillInstalled, hasZrok)
    IN  /\ pid \in ZrokPids \ StopEffect(pidFile, running, root, pkillInstalled).running
        /\ pidCall' = [op |-> "start_zrok_access", before |-> pidFile,
                       pkillInstalled |-> pkillInstalled]
        /\ pidFile' = s.file
        /\ running' = s.running
        /\ signalled' = s.signalled
        /\ printed' = s.printed
        /\ pidResult' = s.result
        /\ lastStarted' = IF Returned(s.result) THEN Some(pid) ELSE lastStarted
        /\ earlier' = Earlier(lastStarted, earlier, s.result)
        /\ UNCHANGED <<apiVars, environments, cfgVars, sshVars, cliVars, orchVars>>

\* an access process ends by itself
ProcessExits(pid) ==
    /\ pid \in running
    /\ running' = running \ {pid}
    /\ pidCall' = [op |-> "external"]
    /\ pidResult' = NoResult
    /\ UNCHANGED <<pidFile, signalled, printed, lastStarted, earlier, apiVars,
                   environments, cfgVars, sshVars, cliVars, orchVars>>

PidInit ==
    /\ pidFile = NoPidFile
    /\ running = {}
    /\ signalled = <<>>
    /\ printed = <<>>
    /\ pidCall = [op |-> "none"]
    /\ pidResult = NoResult
    /\ lastStarted = None
    /\ earlier = {}

(***************************************************************************)
(* The zrok command line: Zrok.disable and Zrok.enable in src/zrok_api.py  *)
(* ("api"), src/utils.py ("utils") and the copy embedded in                *)
(* src/zrok_server.py ("server")                                           *)
(***************************************************************************)
CliVariants == {"api", "utils", "server"}

\* "Account Token"
AccountToken ==
    <<"A", "c", "c", "o", "u", "n", "t", " ", "T", "o", "k", "e", "n">>

\* "<<SET>>"
SetMark ==
    <<"<", "<", "S", "E", "T", ">", ">">>

\* "already enabled"
AlreadyEnabled ==
    <<"a", "l", "r", "e", "a", "d", "y", " ", "e", "n", "a", "b", "l", "e",
      "d">>

\* "401"
Code401 ==
    <<"4", "0", "1">>

\* "unauthorized"
Unauthorized ==
    <<"u", "n", "a", "u", "t", "h", "o", "r", "i", "z", "e", "d">>

\* what the zrok binary prints, by case: stdout of 'zrok status' with and
\* without an enabled environment; the refusal of 'zrok enable' where one is
\* enabled (as printed, and in lower case); its failure on a 401 of the server
\* (by number, and in words); its failure to reach the server
CliSample ==
    [statusEnabled |->
        <<"A", "c", "c", "o", "u", "n", "t", " ", "T", "o", "k", "e", "n",
          " ", " ", "<", "<", "S", "E", "T", ">", ">", "\n">>,
     statusDisabled |->
        <<"u", "n", "a", "b", "l", "e", " ", "t", "o", " ", "l", "o", "a",
          "d", " ", "e", "n", "v", "i", "r", "o", "n", "m", "e", "n", "t",
          "\n">>,
     alreadyEnabledErr |->
        <<"[", "E", "R", "R", "O", "R", "]", ":", " ", "A", "l", "r", "e",
          "a", "d", "y", " ", "e", "n", "a", "b", "l", "e", "d", "\n">>,
     alreadyEnabled |->
        <<"a", "l", "r", "e", "a", "d", "y", " ", "e", "n", "a", "b", "l",
          "e", "d", "\n">>,
     code401 |->
        <<"[", "4", "0", "1", "]", " ", "e", "n", "a", "b", "l", "e", " ",
          "f", "a", "i", "l", "e", "d", "\n">>,
     unauthorized |->
        <<"U", "n", "a", "u", "t", "h", "o", "r", "i", "z", "e", "d", "\n">>,
     network |->
        <<"d", "i", "a", "l", " ", "t", "c", "p", ":", " ", "t", "i", "m",
          "e", "o", "u", "t", "\n">>]

\* _request of the copy embedded in src/zrok_server.py: one attempt, no
\* exception is translated
ServerStep(o, err) ==
    CASE o.kind = "ok" /\ o.body.text = "empty" -> StepOf(TRUE, Return(EmptyObj), 0, err)
      [] o.kind = "ok" /\ o.body.text = "nonjson" -> StepOf(TRUE, Raise("JSONDecodeError"), 0, err)
      [] o.kind = "ok" /\ o.body.text = "json" -> StepOf(TRUE, Return(o.body.value), 0, err)
      [] o.kind = "http" -> StepOf(TRUE, Raise("HTTPError"), 0, err)
      [] o.kind = "urlerror" -> StepOf(TRUE, Raise("URLError"), 0, err)
      [] o.kind = "timeout" -> StepOf(TRUE, Raise("TimeoutError"), 0, err)

\* how _request ends when o is what its last HTTP attempt met
RequestEnd(variant, o) ==
    CASE variant = "api" -> ApiStep(o, MAX_RETRIES - 1, "none").res
      [] variant = "utils" -> UtilsStep(o, "none").res
      [] variant = "server" -> ServerStep(o, "none").res

\* what GET /overview can meet in disable, which reads no share of the
\* environments listed
OverviewOutcomes ==
    {o \in Outcomes :
        (o.kind = "ok" /\ o.body.text = "json" /\ o.body.value.t = "obj") =>
            \A k \in 1..Len(EnvironmentsOf(o.body.value)) :
                EnvironmentsOf(o.body.value)[k].shares = <<>>}

\* what POST /disable can meet: its response body is not read for content
DeleteOutcomes ==
    {o \in Outcomes : o.kind # "ok" \/ o.body.text \in {"empty", "nonjson"}}

\* subprocess.run of the zrok binary: FileNotFoundError when it is not on
\* the PATH, else the completed process
CliOut(rc, stderr, stdout) == [rc |-> rc, stderr |-> stderr, stdout |-> stdout]

\* 'zrok disable' where an environment is enabled succeeds or fails; where
\* none is, it fails
DisableOuts(enabled) ==
    IF enabled THEN {CliOut(0, <<>>, <<>>), CliOut(1, CliSample.network, <<>>)}
    ELSE {CliOut(1, CliSample.statusDisabled, <<>>)}

\* 'zrok status'
StatusOuts(enabled) ==
    IF enabled THEN {CliOut(0, <<>>, CliSample.statusEnabled)}
    ELSE {CliOut(0, <<>>, CliSample.statusDisabled), CliOut(1, <<>>, <<>>)}

\* 'zrok enable <token> -d <name>': refused where an environment is enabled
\* already; else it succeeds, or fails on the credential, on the network, or
\* with no output at all
EnableOuts(enabled) ==
    IF enabled
    THEN {CliOut(1, CliSample.alreadyEnabledErr, <<>>), CliOut(1, <<>>, CliSample.alreadyEnabled)}
    ELSE {CliOut(0, <<>>, <<>>),
          CliOut(1, CliSample.code401, <<>>), CliOut(1, CliSample.unauthorized, <<>>),
          CliOut(1, CliSample.network, <<>>), CliOut(1, <<>>, CliSample.network),
          CliOut(1, <<"\n">>, <<>>)}

\* the remote phase of disable: find_env(self.name), then delete_env(zId)
\* r1 and r2 are how the two requests end
RemoteCleanup(variant, name, r1, r2) ==
    LET ge == get_environments(variant, r1)
        env == IF Returned(ge) THEN find_env(ge.val, name) ELSE None
        zid == IF env.isNone THEN <<>> ELSE env.v.zId
        del == IF zid # <<>> THEN delete_env(variant, r2) ELSE NoResult
    IN  [tried |-> TRUE,
         deleted |-> IF zid # <<>> THEN <<zid>> ELSE <<>>,
         result |-> IF Raised(ge) THEN ge
                    ELSE IF Raised(del) THEN del
                    ELSE Return("None")]

NoCleanup == [tried |-> FALSE, deleted |-> <<>>, result |-> Return("None")]

\* POST /disable is sent only where the remote phase found an environment
DeleteOutcomesFor(variant, name, cleanup_remote, o1) ==
    IF cleanup_remote
         /\ RemoteCleanup(variant, name, RequestEnd(variant, o1), NoResult).deleted # <<>>
    THEN DeleteOutcomes
    ELSE {Outcome("ok", 200, Body("empty", EmptyObj))}

\* disable(cleanup_remote=...) exists in src/zrok_api.py only
CleanupFlags(variant) == IF variant = "api" THEN BOOLEAN ELSE {TRUE}

\* the body of Zrok.disable: the commands it ran, its remote phase and how
\* it ended
DisableEffect(variant, name, cleanup_remote, installed, out, r1, r2) ==
    IF ~installed
    THEN [runs |-> <<>>, remote |-> NoCleanup, result |-> Raise("FileNotFoundError")]
    ELSE LET rem == IF cleanup_remote
                       THEN RemoteCleanup(variant, name, r1, r2) ELSE NoCleanup
         IN  [runs |-> <<"disable">>, remote |-> rem, result |-> rem.result]

disable(variant, name, cleanup_remote, out, o1, o2) ==
    LET r1 == RequestEnd(variant, o1)
        r2 == RequestEnd(variant, o2)
        e == DisableEffect(variant, name, cleanup_remote, zrokInstalled, out, r1, r2)
    IN  /\ cleanup_remote \in CleanupFlags(variant)
        /\ out \in DisableOuts(localEnabled)
        /\ cliCall' = [op |-> "disable", variant |-> variant, name |-> name,
                       cleanup_remote |-> cleanup_remote, out |-> out,
                       overview |-> r1]
        /\ cliRuns' = e.runs
        /\ remotePhase' = e.remote
        /\ cliResult' = e.result
        /\ localEnabled' = IF e.runs # <<>> /\ out.rc = 0 THEN FALSE ELSE localEnabled
        /\ UNCHANGED <<zrokInstalled, apiVars, environments, cfgVars, sshVars, pidVars, orchVars>>

\* result.stderr.strip() or result.stdout.strip()
ErrorMsg(out) == IF strip(out.stderr) # <<>> THEN strip(out.stderr) ELSE strip(out.stdout)

ZrokErrorWith(msg) == [kind |-> "raise", exc |-> "ZrokError", msg |-> msg]

FailedToEnable(msg) == ZrokErrorWith(<<"Failed to enable zrok: ">> \o msg)

\* the message of the 401 branch of src/utils.py, line by line
TokenExpired ==
    ZrokErrorWith(<<"Token expired or invalid!",
                    "Go to https://zrok.io, Account, Generate new invite token",
                    "The invite token is ONE-TIME USE only">>)

StatusSaysEnabled(status) ==
    Contains(status.stdout, AccountToken) /\ Contains(status.stdout, SetMark)

\* what enable makes of the completed 'zrok enable' process
ClassifyEnable(variant, out) ==
    LET error_msg == ErrorMsg(out)
    IN  IF out.rc = 0 THEN Return("None")
        ELSE CASE variant = "api" ->
                    FailedToEnable(IF error_msg # <<>> THEN error_msg
                                   ELSE <<"Unknown error">>)
               [] variant = "utils" ->
                    IF Contains(lower(error_msg), AlreadyEnabled) THEN Return("None")
                    ELSE IF Contains(error_msg, Code401)
                             \/ Contains(lower(error_msg), Unauthorized)
                         THEN TokenExpired
                         ELSE FailedToEnable(
                                  IF error_msg # <<>> THEN error_msg
                                  ELSE <<"Unknown error - check your token at https://zrok.io">>)
               [] variant = "server" ->
                    IF Contains(lower(error_msg), AlreadyEnabled) THEN Return("None")
                    ELSE FailedToEnable(
                             IF error_msg # <<>> THEN error_msg
                             ELSE <<"Unknown error - check your token at https://zrok.io">>)

\* the body of Zrok.enable: the commands it ran and how it ended
EnableEffect(variant, installed, status, out) ==
    IF ~installed
    THEN [runs |-> <<>>, result |-> Raise("FileNotFoundError")]
    ELSE IF variant # "api" /\ StatusSaysEnabled(status)
         THEN [runs |-> <<"status">>, result |-> Return("None")]
         ELSE [runs |-> IF variant = "api" THEN <<"enable">> ELSE <<"status", "enable">>,
               result |-> ClassifyEnable(variant, out)]

enable(variant, name, status, out) ==
    LET e == EnableEffect(variant, zrokInstalled, status, out)
        ran == \E i \in 1..Len(e.runs) : e.runs[i] = "enable"
    IN  /\ status \in StatusOuts(localEnabled)
        /\ out \in EnableOuts(localEnabled)
        /\ cliCall' = [op |-> "enable", variant |-> variant, name |-> name,
                       status |-> status, out |-> out,
                       afterEnable |-> /\ cliCall.op = "enable"
                                      /\ cliCall.variant = variant
                                      /\ Returned(cliResult)]
        /\ cliRuns' = e.runs
        /\ remotePhase' = NoCleanup
        /\ cliResult' = e.result
        /\ localEnabled' = IF ran /\ out.rc = 0 THEN TRUE ELSE localEnabled
        /\ UNCHANGED <<zrokInstalled, apiVars, environments, cfgVars, sshVars, pidVars, orchVars>>

CliInit ==
    /\ zrokInstalled = TRUE
    /\ localEnabled = FALSE
    /\ cliCall = [op |-> "none"]
    /\ cliRuns = <<>>
    /\ remotePhase = NoCleanup
    /\ cliResult = NoResult

(***************************************************************************)
(* The orchestrators: zrok_server.main, setup_script.main,                 *)
(* zrok_client.main and main of kaggle/setup_script.py                     *)
(***************************************************************************)
Entries == {"zrok_server", "setup_script", "zrok_client", "kaggle"}

YourZrokToken ==
    <<"Y", "O", "U", "R", "_", "Z", "R", "O", "K", "_", "T", "O", "K", "E", "N">>

\* --token / ZROK_TOKEN: empty, a <placeholder>, the notebook's default, a token
Credentials ==
    {StrToken(<<>>), StrToken(<<"<", "t", ">">>), StrToken(YourZrokToken),
     StrToken(<<"t">>)}

\* TUNNEL_MODE is a constant of the notebook script only
TunnelModes(e) == IF e = "kaggle" THEN {"public", "private", "direct"} ELSE {"private"}

\* the calls each main makes, in order, when zrok is missing and every call
\* succeeds
Steps(e) ==
    CASE e = "zrok_server" ->
           <<"is_installed", "install", "Zrok", "disable", "enable", "setup_ssh",
             "start", "keep_alive", "stop">>
      [] e = "setup_script" ->
           <<"is_installed", "install", "ssh", "Zrok", "disable", "enable", "share">>
      [] e = "zrok_client" ->
           <<"Zrok", "is_installed", "install", "disable", "enable", "find_env",
             "find_share", "start_zrok_access", "update_ssh_config", "launch_vscode">>
      [] e = "kaggle" ->
           <<"validate", "setup_ssh", "install_zrok", "enable_zrok", "start",
             "keep_alive">>

\* what a call does outside the process: subprocesses it launches, files it
\* writes, network requests it makes
Effects(step) ==
    CASE step \in {"is_installed", "enable", "enable_zrok", "start", "share",
                   "start_zrok_access", "launch_vscode"} -> {"subprocess"}
      [] step = "install" -> {"network", "file", "subprocess"}
      [] step \in {"disable", "install_zrok"} -> {"subprocess", "network"}
      [] step \in {"setup_ssh", "ssh"} -> {"subprocess", "file"}
      [] step = "find_env" -> {"network"}
      [] step = "update_ssh_config" -> {"file"}
      [] OTHER -> {}

\* the calls whose failure the environment decides
EnvFailing ==
    {"install", "enable", "setup_ssh", "ssh", "enable_zrok", "find_env", "find_share",
     "keep_alive"}

\* whether the call fails: the constructor and the notebook's validation by
\* their inputs, run_command-based setup_ssh of the notebook never
Fails(e, step, t, m, envFails) ==
    CASE step = "Zrok" -> Rejects(t)
      [] step = "validate" -> t.s = YourZrokToken \/ m \notin {"public", "private"}
      [] step = "setup_ssh" /\ e = "kaggle" -> FALSE
      [] step \in EnvFailing -> envFails
      [] OTHER -> FALSE

NoExit == [how |-> "running"]

\* how the process ends: sys.exit(main()) and exit(main(args)) turn None and 0
\* into status 0, the notebook script calls main() and drops its value, an
\* uncaught exception ends Python with status 1
Ends(e, how, value) ==
    [how |-> how, value |-> value,
     status |-> IF how = "uncaught" THEN 1
                ELSE IF e = "kaggle" THEN 0
                ELSE IF value = "1" THEN 1 ELSE 0]

\* where a failing call takes main: a return value, an exit() of the
\* __main__ block, or an exception nothing catches
Handle(e, step) ==
    CASE e = "zrok_server" -> Ends(e, "return", "1")
      [] e = "setup_script" ->
           IF step \in {"install", "Zrok"} THEN Ends(e, "uncaught", "none")
           ELSE Ends(e, "return", "1")
      [] e = "zrok_client" ->
           IF step \in {"find_env", "find_share"} THEN Ends(e, "return", "1")
           ELSE Ends(e, "exit", "1")
      [] e = "kaggle" ->
           IF step \in {"validate", "enable_zrok"} THEN Ends(e, "return", "None")
           ELSE Ends(e, "uncaught", "none")

\* main falls off its last call
Completes(e) == Ends(e, "return", IF e = "kaggle" THEN "None" ELSE "0")

Called(step) == [call |-> step, effects |-> Effects(step)]

\* the message of the failure: print / print_error / logger.error of the
\* handler, or the traceback Python prints for an uncaught exception
Reported(r) == [call |-> IF r.how = "uncaught" THEN "traceback" ELSE "print_error",
                effects |-> {}]

MainRunning == entry # "none" /\ mainResult = NoExit

\* the command is started with its arguments
MainStart(e, t, m) ==
    /\ entry = "none"
    /\ entry' = e
    /\ cred' = t
    /\ tunnelMode' = m
    /\ mpc' = 1
    /\ UNCHANGED <<trace, shareProc, mainResult, baseVars, tunVars>>

\* the call at mpc returns; found is what is_installed answers
MainCall(found) ==
    LET step == Steps(entry)[mpc]
        next == IF step = "is_installed" /\ found THEN mpc + 2 ELSE mpc + 1
    IN  /\ MainRunning
        /\ step # "keep_alive"
        /\ ~Fails(entry, step, cred, tunnelMode, FALSE)
        /\ trace' = Append(trace, Called(step))
        /\ shareProc' = IF step \in {"start", "share"} THEN "running"
                        ELSE IF step = "stop" /\ shareProc = "running" THEN "terminated"
                        ELSE shareProc
        /\ IF next > Len(Steps(entry))
             THEN /\ mainResult' = Completes(entry)
                  /\ mpc' = mpc
             ELSE /\ mainResult' = mainResult
                  /\ mpc' = next
        /\ UNCHANGED <<entry, cred, tunnelMode, baseVars, tunVars>>

\* the call at mpc fails: it raises or answers False / None
MainFails ==
    LET step == Steps(entry)[mpc]
        r == Handle(entry, step)
    IN  /\ MainRunning
        /\ Fails(entry, step, cred, tunnelMode, TRUE)
        /\ trace' = trace \o <<Called(step), Reported(r)>>
        /\ mainResult' = r
        /\ UNCHANGED <<entry, cred, tunnelMode, mpc, shareProc, baseVars, tunVars>>

\* Ctrl+C during time.sleep of keep_alive: caught there, keep_alive returns
KeyboardInterrupt ==
    LET step == Steps(entry)[mpc] IN
    /\ MainRunning
    /\ step = "keep_alive"
    /\ trace' = Append(trace, Called(step))
    /\ IF mpc = Len(Steps(entry))
         THEN /\ mainResult' = Completes(entry)
              /\ mpc' = mpc
         ELSE /\ mainResult' = mainResult
              /\ mpc' = mpc + 1
    /\ UNCHANGED <<entry, cred, tunnelMode, shareProc, baseVars, tunVars>>

MainInit ==
    /\ entry = "none"
    /\ cred = StrToken(<<>>)
    /\ tunnelMode = "private"
    /\ mpc = 0
    /\ trace = <<>>
    /\ shareProc = "none"
    /\ mainResult = NoExit

(***************************************************************************)
(* The share subprocess and the thread that reads its output:              *)
(* TunnelManager of zrok_server.py, start_public_tunnel and                *)
(* start_private_tunnel of kaggle/setup_script.py                          *)
(***************************************************************************)
MaxLines == 3         \* most output lines taken from one share subprocess

TokenMinLen == 12

Scrapers == {"server", "public", "private"}

LowerAlnum ==
    {"a", "b", "c", "d", "e", "f", "g", "h", "i", "j", "k", "l", "m", "n", "o", "p",
     "q", "r", "s", "t", "u", "v", "w", "x", "y", "z",
     "0", "1", "2", "3", "4", "5", "6", "7", "8", "9"}

\* \w of a regular expression
WordChars ==
    LowerAlnum \cup
    {"A", "B", "C", "D", "E", "F", "G", "H", "I", "J", "K", "L", "M", "N", "O", "P",
     "Q", "R", "S", "T", "U", "V", "W", "X", "Y", "Z", "_"}

\* where the longest run of characters of cs that begins at i ends; i - 1
\* when s[i] is not in cs
RunEnd(s, i, cs) ==
    LET ends == {j \in i..Len(s) : \A k \in i..j : s[k] \in cs}
    IN  IF ends = {} THEN i - 1 ELSE CHOOSE j \in ends : \A k \in ends : k <= j

\* lit occurs in s at position i
HasAt(s, i, lit) ==
    /\ i + Len(lit) - 1 <= Len(s)
    /\ SubSeq(s, i, i + Len(lit) - 1) = lit

\* the leftmost of the matches a pattern has at the positions of starts;
\* group(i) is what the pattern captures when it matches at i
Leftmost(starts, group(_)) ==
    IF starts = {} THEN None
    ELSE Some(group(CHOOSE i \in starts : \A k \in starts : i <= k))

\* re.search(r'\b([a-z0-9]{12,})\b', s): the first word made only of
\* lower-case letters and digits, TokenMinLen of them or more
ServerMatch(s) ==
    LET end(i) == RunEnd(s, i, LowerAlnum)
        group(i) == SubSeq(s, i, end(i))
        starts == {i \in 1..Len(s) :
                     /\ i = 1 \/ s[i - 1] \notin WordChars
                     /\ end(i) - i + 1 >= TokenMinLen
                     /\ end(i) = Len(s) \/ s[end(i) + 1] \notin WordChars}
    IN  Leftmost(starts, group)

\* re.search(r'share token[:\s]+([a-z0-9]+)', s)
PrivateMatch(s) ==
    LET lit == <<"s", "h", "a", "r", "e", " ", "t", "o", "k", "e", "n">>
        sepEnd(i) == RunEnd(s, i + Len(lit), {":", " ", "\n", "\t"})
        group(i) == SubSeq(s, sepEnd(i) + 1, RunEnd(s, sepEnd(i) + 1, LowerAlnum))
        starts == {i \in 1..Len(s) :
                     /\ HasAt(s, i, lit)
                     /\ sepEnd(i) >= i + Len(lit)
                     /\ RunEnd(s, sepEnd(i) + 1, LowerAlnum) >= sepEnd(i) + 1}
    IN  Leftmost(starts, group)

\* re.search(r'https://([a-z0-9]+\.share\.zrok\.io)', s), and when that does
\* not match re.search(r'([a-z0-9]+\.share\.zrok\.io)', s)
PublicMatch(s) ==
    LET scheme == <<"h", "t", "t", "p", "s", ":", "/", "/">>
        suffix == <<".", "s", "h", "a", "r", "e", ".", "z", "r", "o", "k", ".", "i", "o">>
        end(i) == RunEnd(s, i, LowerAlnum)
        host(i) == end(i) >= i /\ HasAt(s, end(i) + 1, suffix)
        group(i) == SubSeq(s, i, end(i) + Len(suffix))
        afterScheme(i) == group(i + Len(scheme))
        withScheme == {i \in 1..Len(s) : HasAt(s, i, scheme) /\ host(i + Len(scheme))}
        bare == {i \in 1..Len(s) : host(i)}
    IN  IF withScheme # {} THEN Leftmost(withScheme, afterScheme)
        ELSE Leftmost(bare, group)

InspectsWithoutFlag(s, l, sofar) ==
    CASE s = "server" -> Contains(lower(l), <<"t", "o", "k", "e", "n">>)
      [] s = "public" -> Contains(lower(l), <<"z", "r", "o", "k", ".", "i", "o">>)
      [] s = "private" ->
           Contains(lower(l), <<"s", "h", "a", "r", "e", " ", "t", "o", "k", "e", "n">>)

\* the test that lets a line be searched, the flag of the earlier
\* discovery included
Inspects(s, l, sofar) ==
    CASE s = "server" -> Contains(lower(l), <<"t", "o", "k", "e", "n">>) /\ sofar.isNone
      [] s = "public" -> sofar.isNone
                         /\ Contains(lower(l), <<"z", "r", "o", "k", ".", "i", "o">>)
      [] s = "private" ->
           sofar.isNone
           /\ Contains(lower(l), <<"s", "h", "a", "r", "e", " ", "t", "o", "k", "e", "n">>)

\* what the searched line yields
Match(s, l) ==
    CASE s = "server" -> ServerMatch(l)
      [] s = "public" -> PublicMatch(l)
      [] s = "private" -> PrivateMatch(lower(l))

\* the value found after line l, None while nothing was discovered
Scrape(s, l, sofar) ==
    IF Inspects(s, l, sofar) /\ ~Match(s, l).isNone THEN Match(s, l) ELSE sofar

\* output lines of 'zrok share'
ShareLines ==
   {<<"s", "h", "a", "r", "e", " ", "t", "o", "k", "e", "n", ":", " ", "a",
      "b", "c", "d", "e", "f", "g", "h", "i", "j", "k", "l", "\n">>,
    <<"s", "h", "a", "r", "e", " ", "t", "o", "k", "e", "n", ":", " ", "m",
      "n", "o", "p", "q", "r", "s", "t", "u", "v", "w", "x", "\n">>,
    <<"T", "o", "k", "e", "n", ":", " ", "S", "H", "O", "R", "T", "\n">>,
    <<"h", "t", "t", "p", "s", ":", "/", "/", "a", "b", "c", ".", "s", "h",
      "a", "r", "e", ".", "z", "r", "o", "k", ".", "i", "o", "\n">>,
    <<"h", "t", "t", "p", "s", ":", "/", "/", "x", "y", "z", ".", "s", "h",
      "a", "r", "e", ".", "z", "r", "o", "k", ".", "i", "o", "\n">>,
    <<"r", "e", "a", "d", "y", "\n">>}

\* TunnelManager.start, or the thread main starts on tunnel_func
TunnelStart(s) ==
    /\ tpc = "init"
    /\ scraper' = s
    /\ tRunning' = (s = "server")
    /\ rpc' = "popen"
    /\ tpc' = "started"
    /\ UNCHANGED <<tProcess, curLine, discovered, assigned, infos, echoed, nread, lateLines,
                   mainVars, baseVars>>

\* the reader thread: subprocess.Popen(['zrok', 'share', ...]) has launched
\* the subprocess
Launch ==
    /\ rpc = "popen"
    /\ shareProc' = "running"
    /\ rpc' = "assign"
    /\ UNCHANGED <<scraper, tpc, tRunning, tProcess, curLine, discovered, assigned, infos,
                   echoed, nread, lateLines, mainRest, baseVars>>

\* the handle is stored in self.process (process)
Assign ==
    /\ rpc = "assign"
    /\ tProcess' = TRUE
    /\ rpc' = "read"
    /\ UNCHANGED <<scraper, tpc, tRunning, curLine, discovered, assigned, infos, echoed,
                   nread, lateLines, mainVars, baseVars>>

\* for line in process.stdout: the subprocess has written a line
ReadLine(l) ==
    /\ rpc = "read"
    /\ shareProc = "running"
    /\ nread < MaxLines
    /\ curLine' = l
    /\ nread' = nread + 1
    /\ rpc' = IF scraper = "server" THEN "check" ELSE "body"
    /\ UNCHANGED <<scraper, tpc, tRunning, tProcess, discovered, assigned, infos, echoed,
                   lateLines, mainVars, baseVars>>

\* the output ends once the subprocess is terminated
Eof ==
    /\ rpc = "read"
    /\ shareProc = "terminated"
    /\ rpc' = "done"
    /\ UNCHANGED <<scraper, tpc, tRunning, tProcess, curLine, discovered, assigned, infos,
                   echoed, nread, lateLines, mainVars, baseVars>>

\* if not self._running: break
CheckRunning ==
    /\ rpc = "check"
    /\ rpc' = IF tRunning THEN "body" ELSE "done"
    /\ UNCHANGED <<scraper, tpc, tRunning, tProcess, curLine, discovered, assigned, infos,
                   echoed, nread, lateLines, mainVars, baseVars>>

\* print(line, end=''), then the search of the line; a discovery is assigned
\* and the connection information printed
LoopBody ==
    LET after == Scrape(scraper, curLine, discovered)
        hit == Inspects(scraper, curLine, discovered) /\ ~Match(scraper, curLine).isNone
    IN  /\ rpc = "body"
        /\ echoed' = Append(echoed, curLine)
        /\ discovered' = after
        /\ assigned' = IF hit THEN Append(assigned, after.v) ELSE assigned
        /\ infos' = IF hit THEN infos + 1 ELSE infos
        /\ lateLines' = IF tpc = "stopped" THEN lateLines + 1 ELSE lateLines
        /\ rpc' = "read"
        /\ UNCHANGED <<scraper, tpc, tRunning, tProcess, curLine, nread, mainVars, baseVars>>

\* TunnelManager.stop: self._running = False
StopFlag ==
    /\ tpc = "started"
    /\ scraper = "server"
    /\ tRunning' = FALSE
    /\ tpc' = "stopping"
    /\ UNCHANGED <<scraper, rpc, tProcess, curLine, discovered, assigned, infos, echoed,
                   nread, lateLines, mainVars, baseVars>>

\* TunnelManager.stop: if self.process: self.process.terminate()
StopTerminate ==
    /\ tpc = "stopping"
    /\ shareProc' = IF tProcess THEN "terminated" ELSE shareProc
    /\ tpc' = "stopped"
    /\ UNCHANGED <<scraper, rpc, tRunning, tProcess, curLine, discovered, assigned, infos,
                   echoed, nread, lateLines, mainRest, baseVars>>

TunInit ==
    /\ scraper = "server"
    /\ tpc = "init"
    /\ rpc = "idle"
    /\ tRunning = FALSE
    /\ tProcess = FALSE
    /\ curLine = <<>>
    /\ discovered = None
    /\ assigned = <<>>
    /\ infos = 0
    /\ echoed = <<>>
    /\ nread = 0
    /\ lateLines = 0

(***************************************************************************)
(* Zrok.is_installed and Zrok.install                                      *)
(***************************************************************************)
\* how the request for the latest release ends: a listing with a
\* linux_amd64.tar.gz asset, a listing without one, a network error
ReleaseOutcomes == {"asset", "no_asset", "error"}

\* urlretrieve: the archive is written whole, the transfer breaks after part
\* of it was written, or the server refuses before anything is written
DownloadOutcomes == {"ok", "partial", "refused"}

\* tarfile: the binary is extracted, the archive holds no zrok binary, or it
\* cannot be read
ExtractOutcomes == {"ok", "no_binary", "error"}

\* zrok_api.install wraps every failure in ZrokError, utils.install lets the
\* failure through
InstallRaise(variant, e) == Raise(IF variant = "api" THEN "ZrokError" ELSE e)

\* the archive after urlretrieve(url, "/tmp/zrok.tar.gz")
Downloaded(before, dl) ==
    CASE dl = "ok" -> "complete"
      [] dl = "partial" -> "partial"
      [] dl = "refused" -> before

\* the archive install leaves when it fails in the download or the
\* extraction: os.remove("/tmp/zrok.tar.gz") is reached only when extractall
\* returned
ArchiveOnFailure(a) == a

\* subprocess.run(["zrok", "version"], capture_output=True, check=True):
\* a missing binary raises FileNotFoundError at once, which is_installed
\* catches; otherwise the probe runs and is awaited without a timeout
is_installed(variant, fate) ==
    /\ ipc = "idle"
    /\ instCall' = [op |-> "is_installed", variant |-> variant, began |-> FALSE,
                    rel |-> "none", dl |-> "none", ex |-> "none", rc |-> -1]
    /\ IF zrokInstalled
         THEN /\ ipc' = "probing"
              /\ probeFate' = fate
              /\ instResult' = NoResult
         ELSE /\ ipc' = "idle"
              /\ probeFate' = probeFate
              /\ instResult' = Return(FALSE)
    /\ UNCHANGED <<archive, apiVars, environments, cfgVars, sshVars, pidVars, cliVars,
                   mainVars, tunVars, conVars, seqVars>>

\* install up to the launch of its 'zrok version' probe
install(variant, rel, dl, ex, fate) ==
    LET got == Downloaded(archive, dl)
        extracted == rel = "asset" /\ dl = "ok" /\ ex = "ok"
        binary == zrokInstalled \/ extracted
        reachesProbe == rel = "asset" /\ dl = "ok" /\ ex \in {"ok", "no_binary"}
    IN  /\ ipc = "idle"
        /\ instCall' = [op |-> "install", variant |-> variant,
                        began |-> rel = "asset", rel |-> rel,
                        dl |-> IF rel = "asset" THEN dl ELSE "none",
                        ex |-> IF rel = "asset" /\ dl = "ok" THEN ex ELSE "none",
                        rc |-> -1]
        /\ zrokInstalled' = binary
        /\ archive' = CASE rel # "asset" -> archive
                        [] dl # "ok" -> ArchiveOnFailure(got)
                        [] ex = "error" -> ArchiveOnFailure(got)
                        [] OTHER -> "absent"
        /\ IF reachesProbe /\ binary
             THEN /\ ipc' = "probing"
                  /\ probeFate' = fate
                  /\ instResult' = NoResult
             ELSE /\ ipc' = "idle"
                  /\ probeFate' = probeFate
                  /\ instResult' =
                       CASE rel = "error" -> InstallRaise(variant, "URLError")
                         [] rel = "no_asset" -> InstallRaise(variant, "RuntimeError")
                         [] dl = "refused" -> InstallRaise(variant, "HTTPError")
                         [] dl = "partial" -> InstallRaise(variant, "ContentTooShortError")
                         [] ex = "error" -> InstallRaise(variant, "ReadError")
                         [] OTHER -> InstallRaise(variant, "FileNotFoundError")
        /\ UNCHANGED <<localEnabled, cliCall, cliRuns, remotePhase, cliResult, apiVars,
                       environments, cfgVars, sshVars, pidVars, mainVars, tunVars, conVars, seqVars>>

\* the awaited probe exits with status rc: is_installed answers whether it
\* was 0, install raises unless it was 0
ProbeExits(rc) ==
    /\ ipc = "probing"
    /\ probeFate = "exits"
    /\ ipc' = "idle"
    /\ instResult' = IF instCall.op = "is_installed" THEN Return(rc = 0)
                     ELSE IF rc = 0 THEN Return("None")
                     ELSE InstallRaise(instCall.variant, "CalledProcessError")
    /\ instCall' = [instCall EXCEPT !.rc = rc]
    /\ UNCHANGED <<archive, probeFate, apiVars, environments, cfgVars, sshVars,
                   pidVars, cliVars, mainVars, tunVars, conVars, seqVars>>

\* the binary is removed from the PATH outside the program
Uninstall ==
    /\ ipc = "idle"
    /\ zrokInstalled
    /\ zrokInstalled' = FALSE
    /\ UNCHANGED <<instVars, localEnabled, cliCall, cliRuns, remotePhase, cliResult,
                   apiVars, environments, cfgVars, sshVars, pidVars, mainVars, tunVars, conVars, seqVars>>

InstInit ==
    /\ archive = "absent"
    /\ ipc = "idle"
    /\ probeFate = "exits"
    /\ instCall = [op |-> "none"]
    /\ instResult = NoResult

(***************************************************************************)
(* connect_private of local/connect.py                                     *)
(***************************************************************************)
\* how the try block (update_ssh_config and open_vscode, or connect_ssh)
\* ends
ConnectOutcomes == {"returns", "raises", "KeyboardInterrupt"}

FinallyOnReturnOnly(outcome) == outcome = "returns"

\* finally: stop_zrok_access() runs however the try block ended
Finally(outcome) == TRUE

\* connect_private up to its try block: check_dependencies, which also
\* looks for zrok, then start_zrok_access
connect_private(deps, vscode, pid, root, pkillInstalled) ==
    LET s == StartEffect(pidFile, running, pid, root, pkillInstalled, TRUE)
    IN  /\ cpc \in {"idle", "ended"}
        /\ pid \in ZrokPids \ StopEffect(pidFile, running, root, pkillInstalled).running
        /\ cCall' = [op |-> "connect_private", deps |-> deps, vscode |-> vscode,
                     root |-> root, pkillInstalled |-> pkillInstalled,
                     before |-> pidFile, beforeCall |-> pidCall,
                     beforeLast |-> lastStarted,
                     started |-> deps /\ Returned(s.result)]
        /\ IF ~deps
             THEN /\ cpc' = "ended"
                  /\ cResult' = Return("None")
                  /\ UNCHANGED pidVars
             ELSE /\ pidCall' = [op |-> "start_zrok_access", before |-> pidFile,
                                 pkillInstalled |-> pkillInstalled]
                  /\ pidFile' = s.file
                  /\ running' = s.running
                  /\ signalled' = s.signalled
                  /\ printed' = s.printed
                  /\ pidResult' = s.result
                  /\ lastStarted' = IF Returned(s.result) THEN Some(pid) ELSE lastStarted
                  /\ earlier' = Earlier(lastStarted, earlier, s.result)
                  /\ cpc' = IF Returned(s.result) THEN "connecting" ELSE "ended"
                  /\ cResult' = IF Returned(s.result) THEN NoResult ELSE s.result
        /\ UNCHANGED <<apiVars, environments, cfgVars, sshVars, cliVars, mainVars,
                       tunVars, instVars, seqVars>>

\* the try block ends and the finally clause runs
ConnectEnds(outcome) ==
    LET e == StopEffect(pidFile, running, cCall.root, cCall.pkillInstalled)
        ended == IF outcome = "returns" THEN Return("None")
                 ELSE IF outcome = "raises" THEN Raise("Exception")
                 ELSE Raise("KeyboardInterrupt")
    IN  /\ cpc = "connecting"
        /\ cpc' = "ended"
        /\ IF Finally(outcome)
             THEN /\ pidCall' = [op |-> "stop_zrok_access", before |-> pidFile,
                                 pkillInstalled |-> cCall.pkillInstalled]
                  /\ pidFile' = e.file
                  /\ running' = e.running
                  /\ signalled' = e.signalled
                  /\ printed' = e.printed
                  /\ pidResult' = e.result
                  /\ cResult' = IF Raised(e.result) THEN e.result ELSE ended
             ELSE /\ cResult' = ended
                  /\ UNCHANGED <<pidFile, running, signalled, printed, pidCall, pidResult>>
        /\ UNCHANGED <<cCall, lastStarted, earlier, apiVars, environments, cfgVars,
                       sshVars, cliVars, mainVars, tunVars, instVars, seqVars>>

ConInit ==
    /\ cpc = "idle"
    /\ cCall = [op |-> "none"]
    /\ cResult = NoResult

(***************************************************************************)
(* The setup sequence: disable(); enable()                                 *)
(***************************************************************************)
\* the environments GET /overview lists for the account: the one described
\* by name while the service holds it
RemoteListing(exists, name) ==
    IF exists
    THEN << MkEnv([hasDesc |-> TRUE, description |-> name, shares |-> <<>>], 1) >>
    ELSE <<>>

\* what GET /overview can meet: the listing, or a failure of the request
OverviewOf(exists, name) ==
    {Outcome("ok", 200, Body("json", JsonObj(TRUE, RemoteListing(exists, name))))}
        \cup {o \in Outcomes : o.kind # "ok"}

\* the remote environment after disable: a 'zrok disable' that succeeded
\* released it, and so did a POST /disable that the service answered
RemoteAfterDisable(exists, out, rem, o2) ==
    /\ exists
    /\ out.rc # 0
    /\ ~(rem.deleted # <<>> /\ o2.kind = "ok")

\* the local environment after 'zrok disable'
LocalAfterDisable(enabled, installed, out) ==
    IF installed /\ out.rc = 0 THEN FALSE ELSE enabled

\* self.name of the server side
SetupNames == {<<"k">>}

\* zrok.disable(); zrok.enable()
setup_zrok(variant, name, dOut, o1, o2, status, eOut) ==
    LET r1 == RequestEnd(variant, o1)
        r2 == RequestEnd(variant, o2)
        d == DisableEffect(variant, name, TRUE, zrokInstalled, dOut, r1, r2)
        local1 == LocalAfterDisable(localEnabled, zrokInstalled, dOut)
        remote1 == IF d.runs # <<>>
                   THEN RemoteAfterDisable(remoteEnv, dOut, d.remote, o2)
                   ELSE remoteEnv
        e == EnableEffect(variant, zrokInstalled, status, eOut)
        enabledNow == (\E i \in 1..Len(e.runs) : e.runs[i] = "enable") /\ eOut.rc = 0
    IN  /\ dOut \in DisableOuts(localEnabled)
        /\ o1 \in OverviewOf(remoteEnv /\ dOut.rc # 0, name)
        /\ o2 \in DeleteOutcomesFor(variant, name, TRUE, o1)
        /\ status \in StatusOuts(local1)
        /\ eOut \in EnableOuts(local1)
        /\ seqCall' = [op |-> "setup_zrok", variant |-> variant, name |-> name,
                       localBefore |-> localEnabled, remoteBefore |-> remoteEnv,
                       disableOut |-> dOut, disabled |-> d.result,
                       deleted |-> remoteEnv /\ ~remote1,
                       localAfter |-> IF Raised(d.result) THEN local1
                                      ELSE local1 \/ enabledNow,
                       remoteAfter |-> IF Raised(d.result) THEN remote1
                                       ELSE remote1 \/ enabledNow,
                       runs |-> IF Raised(d.result) THEN d.runs ELSE d.runs \o e.runs]
        /\ IF Raised(d.result)
             THEN /\ seqResult' = d.result
                  /\ localEnabled' = local1
                  /\ remoteEnv' = remote1
                  /\ cliCall' = [op |-> "disable", variant |-> variant, name |-> name,
                                 cleanup_remote |-> TRUE, out |-> dOut, overview |-> r1]
                  /\ cliRuns' = d.runs
                  /\ remotePhase' = d.remote
                  /\ cliResult' = d.result
             ELSE /\ seqResult' = e.result
                  /\ localEnabled' = (local1 \/ enabledNow)
                  /\ remoteEnv' = (remote1 \/ enabledNow)
                  /\ cliCall' = [op |-> "enable", variant |-> variant, name |-> name,
                                 status |-> status, out |-> eOut, afterEnable |-> FALSE]
                  /\ cliRuns' = e.runs
                  /\ remotePhase' = NoCleanup
                  /\ cliResult' = e.result
        /\ UNCHANGED <<zrokInstalled, apiVars, environments, cfgVars, sshVars, pidVars,
                       mainVars, tunVars, instVars, conVars>>

\* the notebook session restarts: ~/.zrok is lost, the service keeps the
\* environment
SessionRestart ==
    /\ localEnabled
    /\ localEnabled' = FALSE
    /\ UNCHANGED <<zrokInstalled, cliCall, cliRuns, remotePhase, cliResult, seqVars,
                   apiVars, environments, cfgVars, sshVars, pidVars, mainVars, tunVars,
                   instVars, conVars>>

\* the environment is released in the web console of the service
RemoteDeleted ==
    /\ remoteEnv
    /\ remoteEnv' = FALSE
    /\ UNCHANGED <<seqCall, seqResult, apiVars, environments, cfgVars, sshVars, pidVars,
                   cliVars, mainVars, tunVars, instVars, conVars>>

SeqInit ==
    /\ remoteEnv = FALSE
    /\ seqCall = [op |-> "none"]
    /\ seqResult = NoResult

OrchInit == MainInit /\ TunInit /\ InstInit /\ ConInit /\ SeqInit

InitCommon ==
    /\ client = NoClient
    /\ call = [op |-> "none"]
    /\ pc = "idle"
    /\ outcomes = <<>>
    /\ sleeps = <<>>
    /\ last_error = "none"
    /\ procs = 0
    /\ reqResult = NoResult
    /\ result = NoResult
    /\ environments = <<>>
    /\ CfgInit
    /\ OrchInit
    /\ SshInit
    /\ PidInit
    /\ CliInit

InitCtor == InitCommon

NextCtor == \E v \in Variants, t \in Tokens, n \in Names : Construct(v, t, n)

SpecCtor == InitCtor /\ [][NextCtor]_vars

Init == InitCommon

Next ==
    \/ \E v \in Variants, t \in SpecTokens : Construct(v, t, <<"k">>)
    \/ GetEnvironments
    \/ \E n \in Names : FindEnv(n)
    \/ \E z \in ZIds : DeleteEnv(z)
    \/ \E o \in Outcomes : Attempt(o)

Spec == Init /\ [][Next]_vars

(***************************************************************************)
(* Claims about the retry loop and the error policy (Spec)                 *)
(***************************************************************************)
ApiClient == client.exists /\ client.variant = "api"

AllUrlError(os) == \A i \in 1..Len(os) : os[i].kind = "urlerror"

LastOutcome == outcomes[Len(outcomes)]

C3_ShortCircuit ==
    ApiClient =>
        \A k \in 1..Len(outcomes) :
            (outcomes[k].kind = "http" /\ outcomes[k].code \in {401, 404}) =>
                /\ k = Len(outcomes)
                /\ k <= 3
                /\ pc = "idle"
                /\ Len(sleeps) = k - 1
                /\ outcomes[k].code = 401 => reqResult = Raise("ZrokError")
                /\ outcomes[k].code = 404 => reqResult = Return(EmptyObj)

C3_Witness ==
    /\ ApiClient /\ Len(outcomes) = 3 /\ pc = "idle"
    /\ LastOutcome.kind = "http" /\ LastOutcome.code = 404
    /\ reqResult = Return(EmptyObj)

\* C4: get_environments and find_env never raise: whatever the HTTP request
\* met, they return; and unless the response was a JSON object with an
\* 'environments' key, get_environments returns [] and find_env returns None.
C4_ReadPathNeverRaises ==
    (client.exists /\ pc = "idle" /\ call.op \in {"get_environments", "find_env"}) =>
        /\ Returned(result)
        /\ ~(LastOutcome.kind = "ok" /\ LastOutcome.body.text = "json"
             /\ LastOutcome.body.value.t = "obj" /\ LastOutcome.body.value.hasEnvs) =>
               result = IF call.op = "get_environments" THEN Return(<<>>)
                        ELSE Return(None)

\* C8: delete_env never raises, returns True exactly when the POST /disable
\* got a successful response, and False on every failure of the request.
C8_DeleteNeverRaises ==
    (client.exists /\ pc = "idle" /\ call.op = "delete_env") =>
        /\ Returned(result)
        /\ result = Return(LastOutcome.kind = "ok")

InitLookup ==
    /\ client = NoClient
    /\ call = [op |-> "none"]
    /\ pc = "idle"
    /\ outcomes = <<>>
    /\ sleeps = <<>>
    /\ last_error = "none"
    /\ procs = 0
    /\ reqResult = NoResult
    /\ result = NoResult
    /\ environments \in Listings(MaxEnvs, MaxShares)
    /\ CfgInit
    /\ OrchInit
    /\ SshInit
    /\ PidInit
    /\ CliInit

NextLookup ==
    \/ \E v \in Variants, n \in Names : LookupFindEnv(v, n)
    \/ \E v \in Variants, n \in Names, p \in Ports : LookupShareToken(v, n, p)
    \/ \E n \in Names, p \in Ports : MainFindShare(n, p)

SpecLookup == InitLookup /\ [][NextLookup]_vars

(***************************************************************************)
(* Claims about the lookups (SpecLookup)                                   *)
(***************************************************************************)
\* equality of two strings ignoring letter case, letter by letter
EqIgnoreCase(a, b) ==
    /\ Len(a) = Len(b)
    /\ \A i \in 1..Len(a) : a[i] = b[i] \/ {a[i], b[i]} = {"K", "k"}

Min(S) == CHOOSE x \in S : \A y \in S : x <= y

\* positions of the environments whose description is `name`, case ignored;
\* an entry without description counts as described by ""
MatchingEnvs(items, name) ==
    {i \in 1..Len(items) :
        EqIgnoreCase(IF items[i].hasDesc THEN items[i].description ELSE <<>>, name)}

FirstEnv(items, name) ==
    IF MatchingEnvs(items, name) = {} THEN None
    ELSE Some(items[Min(MatchingEnvs(items, name))])

\* C5: find_env(name) is the first element, in listing order, of
\* get_environments() whose description equals name ignoring case, None when
\* there is none; an entry without a description is returned only for the
\* empty name.
C5_FindEnvFirstMatch ==
    call.op = "find_env" =>
        /\ result = Return(FirstEnv(environments, call.name))
        /\ (~result.val.isNone /\ ~result.val.v.hasDesc) => call.name = <<>>

C5_Witness ==
    /\ call.op = "find_env"
    /\ Len(environments) = 2
    /\ environments[1].hasDesc /\ environments[2].hasDesc
    /\ environments[1].description # environments[2].description
    /\ MatchingEnvs(environments, call.name) = {1, 2}
    /\ result = Return(Some(environments[1]))

PortText(port) ==
    CASE port = 22 -> <<"2", "2">>
      [] port = 8080 -> <<"8", "0", "8", "0">>

\* positions of the shares in tcpTunnel mode bound to localhost:<port>
ExactShares(shares, port) ==
    {j \in 1..Len(shares) :
        /\ shares[j].backendMode = <<"t", "c", "p", "T", "u", "n", "n", "e", "l">>
        /\ shares[j].backendProxyEndpoint =
             <<"l", "o", "c", "a", "l", "h", "o", "s", "t", ":">> \o PortText(port)}

FirstShareToken(items, name, port) ==
    LET env == FirstEnv(items, name)
    IN  IF env.isNone \/ ExactShares(env.v.shares, port) = {} THEN None
        ELSE Some(env.v.shares[Min(ExactShares(env.v.shares, port))].shareToken)

\* C6: find_share_token of src/zrok_api.py returns the shareToken of the
\* first share of the resolved environment that is in tcpTunnel mode on
\* localhost:<port>, and None when the environment or such a share is absent.
C6_FindShareToken ==
    (call.op = "find_share_token" /\ call.variant = "api") =>
        result = Return(FirstShareToken(environments, call.name, call.port))

C6_Witness ==
    /\ call.op = "find_share_token" /\ call.variant = "api" /\ call.port = 22
    /\ Len(environments) >= 1
    /\ ~FirstEnv(environments, call.name).isNone
    /\ LET shares == FirstEnv(environments, call.name).v.shares
       IN  /\ Len(shares) = 2
           /\ shares[1].backendMode = TcpTunnel
           /\ shares[1].backendProxyEndpoint = Endpoint(Localhost, 2222)
           /\ result = Return(Some(shares[2].shareToken))

C6_WitnessAbsent ==
    /\ call.op = "find_share_token" /\ call.variant = "api" /\ call.port = 8080
    /\ ~FirstEnv(environments, call.name).isNone
    /\ ExactShares(FirstEnv(environments, call.name).v.shares, 22) # {}
    /\ result = Return(None)

\* C7: every variant of the share-token lookup returns only a share that is
\* in tcpTunnel mode and whose backendProxyEndpoint is exactly
\* localhost:<port>.
C7_EveryVariantExact ==
    (call.op \in {"find_share_token", "main"} /\ ~result.val.isNone) =>
        \E i \in 1..Len(environments) :
            \E j \in ExactShares(environments[i].shares, call.port) :
                result.val.v \in {environments[i].shares[j].shareToken,
                                  environments[i].shares[j].token}

InitConfig == InitCommon

NextConfig ==
    \/ load_config
    \/ \E m \in Configs : \E o \in KeyOrders(m) : save_config(m, o)
    \/ \E t \in MalformedTexts : CorruptConfig(t)

SpecConfig == InitConfig /\ [][NextConfig]_vars

(***************************************************************************)
(* Claims about the state store (SpecConfig)                               *)
(***************************************************************************)
\* C9: save_config(m) followed by load_config() returns exactly m, and a
\* save replaces the stored mapping wholesale: what load returns after
\* save(m1); save(m2) is m2, with no key left over from m1.
C9_RoundTrip ==
    (cfgCall.op = "load_config" /\ cfgWritten.by = "save_config") =>
        /\ cfgResult = Return(cfgWritten.config)
        /\ DOMAIN cfgResult.val = DOMAIN cfgWritten.config

C9_Witness ==
    /\ cfgCall.op = "load_config"
    /\ cfgWritten.by = "save_config"
    /\ \E k \in DOMAIN cfgWritten.before : k \notin DOMAIN cfgWritten.config
    /\ Cardinality(DOMAIN cfgWritten.config) = 2
    /\ cfgResult = Return(cfgWritten.config)

\* C10: load_config never raises: it returns the empty mapping when the file
\* is absent and when the file holds malformed JSON.
C10_LoadNeverRaises ==
    cfgCall.op = "load_config" =>
        /\ Returned(cfgResult)
        /\ (~cfgFile.exists \/ ~JsonWellFormed(cfgFile.text)) =>
               cfgResult = Return(EmptyConfig)

(***************************************************************************)
(* update_ssh_config in both variants (SpecSsh)                            *)
(***************************************************************************)
InitSsh ==
    /\ client = NoClient
    /\ call = [op |-> "none"]
    /\ pc = "idle"
    /\ outcomes = <<>>
    /\ sleeps = <<>>
    /\ last_error = "none"
    /\ procs = 0
    /\ reqResult = NoResult
    /\ result = NoResult
    /\ environments = <<>>
    /\ CfgInit
    /\ OrchInit
    /\ sshFile \in {NoSshFile} \cup {SshText(t) : t \in UserTexts(MaxUserBlocks)}
    /\ sshMode \in IF sshFile.exists THEN FileModes ELSE {0}
    /\ sshCall = [op |-> "none"]
    /\ sshResult = NoResult
    /\ PidInit
    /\ CliInit

NextSsh ==
    \/ \E h \in Hostnames, p \in SshPorts, a \in Aliases, root \in BOOLEAN :
           ConnectUpdateSshConfig(h, p, a, root)
    \/ \E n \in Aliases, p \in SshPorts, s \in Platforms, root \in BOOLEAN :
           ClientUpdateSshConfig(n, p, s, root)

SpecSsh == InitSsh /\ [][NextSsh]_vars

\* the Host blocks of a text: each runs from a Host line up to, but not
\* including, the next Host line
IsHostLine(line) == StartsWithSeq(strip(line), <<"Host", " ">>)

RECURSIVE BlocksFrom(_, _)
BlocksFrom(lines, acc) ==
    IF lines = <<>> THEN acc
    ELSE IF IsHostLine(Head(lines))
         THEN BlocksFrom(Tail(lines), Append(acc, <<Head(lines)>>))
         ELSE IF acc = <<>> THEN BlocksFrom(Tail(lines), acc)
              ELSE BlocksFrom(Tail(lines),
                              [acc EXCEPT ![Len(acc)] = Append(@, Head(lines))])

Blocks(text) == BlocksFrom(text, <<>>)

\* a block without the separator lines that end it: blank lines, and the
\* generated comment that introduces the block after it
IsSeparator(line) == IsBlank(line) \/ StartsWithSeq(strip(line), KaggleComment)

RECURSIVE Core(_)
Core(block) ==
    IF Len(block) > 1 /\ IsSeparator(block[Len(block)])
    THEN Core(SubSeq(block, 1, Len(block) - 1))
    ELSE block

IsBlockOf(block, alias) == strip(block[1]) = HostLine(alias)

BlocksOf(text, alias) == SelectSeq(Blocks(text), LAMBDA b : IsBlockOf(b, alias))

OtherBlockCores(text, alias) ==
    LET others == SelectSeq(Blocks(text), LAMBDA b : ~IsBlockOf(b, alias))
    IN  [i \in 1..Len(others) |-> Core(others[i])]

SshUpdated(variant) ==
    /\ sshCall.op = "update_ssh_config"
    /\ sshCall.variant = variant
    /\ Returned(sshResult)

IsProperPrefix(a, b) == StartsWithSeq(b, a) /\ a # b

\* the lines a connect.py entry gives the block of its alias
EntryBlock(alias, hostname, port) == SubSeq(ConnectEntry(alias, hostname, port), 3, 11)

\* C12: update_ssh_config(alias=A) of src/local/connect.py removes the block
\* of 'Host A' up to the next Host line and leaves every other Host block as
\* it was: the same blocks, line for line, in the same order.
C12_OtherBlocksUnchanged ==
    SshUpdated("connect") =>
        OtherBlockCores(sshFile.lines, sshCall.alias) =
            OtherBlockCores(ExistingText(sshCall.before), sshCall.alias)

\* C13: the block to replace is the one whose line is exactly 'Host <alias>':
\* when update_ssh_config(alias=A) of src/local/connect.py finds the block the
\* program wrote for an alias B of which A is a proper prefix, that block is
\* still there, unchanged, afterwards.
C13_LongerAliasKept ==
    SshUpdated("connect") =>
        \A b \in Aliases, h \in Hostnames, p \in SshPorts :
            (/\ IsProperPrefix(sshCall.alias, b)
             /\ Contains(ExistingText(sshCall.before), EntryBlock(b, h, p)))
                => Contains(sshFile.lines, EntryBlock(b, h, p))

\* C14: after update_ssh_config returns, in either variant, the file holds
\* exactly one Host block for the alias, and the HostName and Port of that
\* block are the values of this call.
C14_ReplaceOrAppend ==
    (sshCall.op = "update_ssh_config" /\ Returned(sshResult)) =>
        LET bs == BlocksOf(sshFile.lines, sshCall.alias)
        IN  /\ Len(bs) = 1
            /\ \E i \in 1..Len(bs[1]) :
                   bs[1][i] = <<"    ", "HostName", " ">> \o sshCall.hostname
            /\ \E i \in 1..Len(bs[1]) :
                   bs[1][i] = <<"    ", "Port", " ">> \o IntToStr(sshCall.port)

(***************************************************************************)
(* Permission bits of the two files the program writes (SpecPerms)         *)
(***************************************************************************)
InitPerms == InitCommon

NextPerms ==
    \/ \E m \in {c \in Configs : Cardinality(DOMAIN c) <= 1} : \E o \in KeyOrders(m) : save_config(m, o)
    \/ CorruptConfig(<<>>)
    \/ \E mode \in {Mode600, Mode644} : ChmodConfig(mode)
    \/ \E mode \in FileModes : ChmodSsh(mode)
    \/ \E h \in Hostnames, p \in SshPorts, root \in BOOLEAN :
           ConnectUpdateSshConfig(h, p, <<"kaggle">>, root)
    \/ \E s \in Platforms, root \in BOOLEAN :
           ClientUpdateSshConfig(<<"kaggle">>, 9191, s, root)

SpecPerms == InitPerms /\ [][NextPerms]_vars

\* C11: once save_config or update_ssh_config of src/local/connect.py has
\* completed, the file it wrote has permission bits exactly 0600, whatever
\* bits it had before, whether or not it existed, and whether or not the call
\* changed its content.
C11_Mode600 ==
    /\ (cfgCall.op = "save_config" /\ Returned(cfgResult)) =>
           cfgFile.exists /\ cfgMode = Mode600
    /\ SshUpdated("connect") => sshFile.exists /\ sshMode = Mode600

C11_Witness ==
    /\ cfgCall.op = "save_config" /\ Returned(cfgResult)
    /\ SshUpdated("connect")
    /\ sshCall.beforeMode = Mode644
    /\ sshCall.before = sshFile
    /\ sshMode = Mode600

(***************************************************************************)
(* stop_zrok_access and the PID file (SpecPid)                             *)
(***************************************************************************)
InitPid ==
    /\ client = NoClient
    /\ call = [op |-> "none"]
    /\ pc = "idle"
    /\ outcomes = <<>>
    /\ sleeps = <<>>
    /\ last_error = "none"
    /\ procs = 0
    /\ reqResult = NoResult
    /\ result = NoResult
    /\ environments = <<>>
    /\ CfgInit
    /\ OrchInit
    /\ SshInit
    /\ pidFile \in {NoPidFile} \cup {PidText(t) : t \in PidContents}
    /\ running \in SUBSET ZrokPids
    /\ signalled = <<>>
    /\ printed = <<>>
    /\ pidCall = [op |-> "none"]
    /\ pidResult = NoResult
    /\ lastStarted = Recorded(pidFile)
    /\ earlier = {}
    /\ CliInit

NextPid ==
    \/ \E root \in BOOLEAN, pk \in BOOLEAN : stop_zrok_access(root, pk)
    \/ \E pid \in ZrokPids, root \in BOOLEAN, pk \in BOOLEAN, z \in BOOLEAN :
           start_zrok_access(pid, root, pk, z)
    \/ \E pid \in ZrokPids : ProcessExits(pid)

SpecPid == InitPid /\ [][NextPid]_vars

Stopped == pidCall.op = "stop_zrok_access"

\* C15: after stop_zrok_access returns the PID file does not exist, whatever
\* it held before; when its content parses as an integer the termination
\* signal went to that PID and to no other, when it does not no signal was
\* sent; and neither 'no such process' nor a content that is no integer
\* makes the call raise.
C15_PidFileGone ==
    Stopped =>
        /\ Returned(pidResult) =>
              /\ ~pidFile.exists
              /\ signalled =
                    IF pidCall.before.exists /\ Returned(ParseInt(pidCall.before.text))
                    THEN <<ParseInt(pidCall.before.text).val>>
                    ELSE <<>>
        /\ pidResult \notin {Raise("ProcessLookupError"), Raise("ValueError")}
        /\ (/\ pidCall.pkillInstalled
            /\ pidCall.before.exists
            /\ ParseInt(pidCall.before.text) # Return(ForeignPid)) => Returned(pidResult)

C15_Witness ==
    /\ Stopped /\ Returned(pidResult)
    /\ pidCall.before = PidText(<<"8">>)
    /\ signalled = <<8>>
    /\ printed = <<>>
    /\ ~pidFile.exists

\* C16: stop_zrok_access called when no PID file exists does not raise,
\* signals no recorded PID, reports that there is nothing to stop and leaves
\* the PID file absent.
C16_NothingToStop ==
    (Stopped /\ ~pidCall.before.exists) =>
        /\ Returned(pidResult)
        /\ signalled = <<>>
        /\ \E i \in 1..Len(printed) : Contains(printed[i], <<"nothing to stop">>)
        /\ ~pidFile.exists

(***************************************************************************)
(* Zrok.disable and Zrok.enable in the three variants (SpecCli)            *)
(***************************************************************************)
InitCli ==
    /\ client = NoClient
    /\ call = [op |-> "none"]
    /\ pc = "idle"
    /\ outcomes = <<>>
    /\ sleeps = <<>>
    /\ last_error = "none"
    /\ procs = 0
    /\ reqResult = NoResult
    /\ result = NoResult
    /\ environments = <<>>
    /\ CfgInit
    /\ OrchInit
    /\ SshInit
    /\ PidInit
    /\ zrokInstalled \in BOOLEAN
    /\ localEnabled \in BOOLEAN
    /\ cliCall = [op |-> "none"]
    /\ cliRuns = <<>>
    /\ remotePhase = NoCleanup
    /\ cliResult = NoResult

NextCli ==
    \/ \E v \in CliVariants, n \in Names, out \in DisableOuts(localEnabled),
          o1 \in OverviewOutcomes :
           \E c \in CleanupFlags(v) : \E o2 \in DeleteOutcomesFor(v, n, c, o1) :
               disable(v, n, c, out, o1, o2)
    \/ \E v \in CliVariants, n \in Names, st \in StatusOuts(localEnabled),
          out \in EnableOuts(localEnabled) :
           enable(v, n, st, out)

SpecCli == InitCli /\ [][NextCli]_vars

Ran(cmd) == \E i \in 1..Len(cliRuns) : cliRuns[i] = cmd

\* C17: Zrok.disable never raises, whatever its steps meet: the zrok binary
\* missing, 'zrok disable' exiting non-zero, the API unreachable, no
\* environment of that name, the remote deletion failing.
C17_DisableNeverRaises ==
    cliCall.op = "disable" => Returned(cliResult)

\* C18: the remote phase of Zrok.disable (find the environment named
\* self.name and delete it by its zId) is attempted whatever came of the
\* local 'zrok disable' invocation, and only an environment whose description
\* matches self.name is ever deleted.
C18_RemoteAlwaysTried ==
    (cliCall.op = "disable" /\ cliCall.cleanup_remote) =>
        /\ remotePhase.tried
        /\ \A i \in 1..Len(remotePhase.deleted) :
              LET ge == get_environments(cliCall.variant, cliCall.overview)
              IN  /\ Returned(ge)
                  /\ \E k \in 1..Len(ge.val) :
                        /\ ge.val[k].zId = remotePhase.deleted[i]
                        /\ lower(DescriptionOf(ge.val[k])) = lower(cliCall.name)

\* C19: enable is idempotent in every variant: where 'zrok status' reports
\* an enabled environment it returns without running 'zrok enable'; where
\* 'zrok enable' answers "already enabled" it returns; and an enable that
\* follows a successful enable does not raise.
C19_EnableIdempotent ==
    (cliCall.op = "enable" /\ zrokInstalled) =>
        /\ StatusSaysEnabled(cliCall.status) => Returned(cliResult) /\ ~Ran("enable")
        /\ (/\ Ran("enable")
            /\ cliCall.out.rc # 0
            /\ Contains(lower(ErrorMsg(cliCall.out)), AlreadyEnabled)) => Returned(cliResult)
        /\ cliCall.afterEnable => ~Raised(cliResult)

\* C20: enable of src/utils.py and of src/zrok_api.py puts the end of
\* 'zrok enable' into exactly one class: exit 0 is success; non-zero with
\* "already enabled" in the output is success; non-zero with "401" or
\* "unauthorized" is the error that asks for a new one-time token; any other
\* non-zero exit is an error carrying stderr, else stdout, else a fixed text.
C20_EnableClassifies ==
    (cliCall.op = "enable" /\ cliCall.variant \in {"utils", "api"} /\ Ran("enable")) =>
        LET msg == ErrorMsg(cliCall.out)
            failed == cliCall.out.rc # 0
            already == Contains(lower(msg), AlreadyEnabled)
            unauth == Contains(msg, Code401) \/ Contains(lower(msg), Unauthorized)
        IN  /\ ~failed => Returned(cliResult)
            /\ (failed /\ already) => Returned(cliResult)
            /\ (failed /\ ~already /\ unauth) => cliResult = TokenExpired
            /\ (failed /\ ~already /\ ~unauth) =>
                  /\ Raised(cliResult)
                  /\ cliResult.exc = "ZrokError"
                  /\ cliResult # TokenExpired
                  /\ IF msg # <<>> THEN Contains(cliResult.msg, msg)
                     ELSE Len(cliResult.msg) > 1

(***************************************************************************)
(* The orchestrators                                                       *)
(***************************************************************************)
InitMain == InitCommon

NextMain ==
    \/ \E e \in Entries, t \in Credentials : \E m \in TunnelModes(e) : MainStart(e, t, m)
    \/ \E found \in BOOLEAN : MainCall(found)
    \/ MainFails
    \/ KeyboardInterrupt

SpecMain == InitMain /\ [][NextMain]_vars

MainEnded == entry # "none" /\ mainResult # NoExit

Made(c) == \E i \in 1..Len(trace) : trace[i].call = c

MadeAfter(c, d) ==
    \E i, j \in 1..Len(trace) : i < j /\ trace[i].call = c /\ trace[j].call = d

\* C21: when a command that started the tunnel and entered keep_alive has
\* ended, the share subprocess is terminated and a deletion of the remote
\* environment (disable) was attempted after keep_alive.
C21_TeardownBeforeExit ==
    (MainEnded /\ Made("start") /\ Made("keep_alive"))
        => /\ shareProc = "terminated"
           /\ MadeAfter("keep_alive", "disable")

\* the input the entry point has to refuse: an empty or <placeholder>
\* credential of a Zrok-based command; the default or an empty ZROK_TOKEN, or
\* a TUNNEL_MODE other than public/private, of the notebook script
InvalidInput ==
    IF entry = "kaggle"
      THEN cred.s = YourZrokToken \/ cred.s = <<>>
           \/ tunnelMode \notin {"public", "private"}
      ELSE Rejects(cred)

\* C22: a command given an invalid credential or tunnel mode makes no call
\* that launches a subprocess, writes a file or makes a network request, and
\* when it has ended it has reported the error.
C22_RejectedBeforeAnyEffect ==
    (entry # "none" /\ InvalidInput)
        => /\ \A i \in 1..Len(trace) : trace[i].effects = {}
           /\ MainEnded => (Made("print_error") \/ Made("traceback"))

MainFailed == MainEnded /\ (Made("print_error") \/ Made("traceback"))

MainCompleted ==
    /\ MainEnded
    /\ trace # <<>>
    /\ trace[Len(trace)].call = Steps(entry)[Len(Steps(entry))]

\* C26: a command that ended on a failing call has a non-zero exit status,
\* and a command that ended with status 0 has made the last call of its
\* sequence.
C26_FatalIsNonZero ==
    /\ MainFailed => mainResult.status # 0
    /\ (MainEnded /\ mainResult.status = 0) => MainCompleted

(***************************************************************************)
(* The share subprocess and its reader thread                              *)
(***************************************************************************)
InitTunnel == InitCommon

NextTunnel ==
    \/ \E s \in Scrapers : TunnelStart(s)
    \/ Launch
    \/ Assign
    \/ \E l \in ShareLines : ReadLine(l)
    \/ Eof
    \/ CheckRunning
    \/ LoopBody
    \/ StopFlag
    \/ StopTerminate

SpecTunnel == InitTunnel /\ [][NextTunnel]_vars

\* the printed lines that hold a token / hostname for the running scraper
Matching == {i \in 1..Len(echoed) :
               Inspects(scraper, echoed[i], None) /\ ~Match(scraper, echoed[i]).isNone}

\* C23: in one run of a share subprocess the token / hostname is assigned at
\* most once and the connection information printed at most once, and what
\* was discovered is the match of the first matching line however many
\* matching lines followed.
C23_FirstMatchWins ==
    /\ Len(assigned) <= 1
    /\ infos <= 1
    /\ Matching # {} =>
         /\ ~discovered.isNone
         /\ discovered = Match(scraper, echoed[Min(Matching)])
         /\ assigned = <<discovered.v>>

\* two lines with different tokens / hostnames were printed
C23_Witness ==
    \E i, j \in Matching :
        /\ i < j
        /\ Match(scraper, echoed[i]) # Match(scraper, echoed[j])

\* C27: once stop() has returned the share subprocess is not running, and
\* the reader thread has printed or scraped no line since.
C27_StopIsEffective ==
    tpc = "stopped" => (shareProc # "running" /\ lateLines = 0)

(***************************************************************************)
(* is_installed and install                                                *)
(***************************************************************************)
InitInstall == InitCommon

ProbeFates == {"exits", "hangs"}

NextInstall ==
    \/ \E v \in Variants, f \in ProbeFates : is_installed(v, f)
    \/ \E v \in Variants, rel \in ReleaseOutcomes, dl \in DownloadOutcomes,
          ex \in ExtractOutcomes, f \in ProbeFates : install(v, rel, dl, ex, f)
    \/ \E rc \in {0, 1} : ProbeExits(rc)
    \/ Uninstall

SpecInstall == InitInstall /\ [][NextInstall]_vars

\* a probe that will exit is not awaited forever
SpecInstallLive == SpecInstall /\ WF_vars(\E rc \in {0, 1} : ProbeExits(rc))

InstallEnded == instCall.op = "install" /\ ipc = "idle"

\* C24: when install has raised after its download began, /tmp/zrok.tar.gz
\* does not exist; and install has raised whenever the release had no
\* linux_amd64 asset or the post-install probe exited non-zero.
C24_ArchiveCleanedOnFailure ==
    InstallEnded =>
        /\ (Raised(instResult) /\ instCall.began) => archive = "absent"
        /\ (instCall.rel = "no_asset" \/ instCall.rc = 1) => Raised(instResult)

\* C25: is_installed does not wait for its probe forever: every call that
\* is awaiting the 'zrok version' probe returns.
C25_AlwaysReturns ==
    (ipc = "probing" /\ instCall.op = "is_installed") ~> (ipc = "idle")

(***************************************************************************)
(* connect_private                                                         *)
(***************************************************************************)
InitConnect == InitPid

\* inside the try block of a --vscode call update_ssh_config runs for the
\* aliases kaggle and kaggle-temp; an access process may end by itself
NextConnect ==
    \/ \E deps \in BOOLEAN, vscode \in BOOLEAN, pid \in ZrokPids, root \in BOOLEAN,
          pk \in BOOLEAN : connect_private(deps, vscode, pid, root, pk)
    \/ \E o \in ConnectOutcomes : ConnectEnds(o)
    \/ /\ cpc = "connecting"
       /\ cCall.vscode
       /\ \E alias \in {<<"kaggle">>, <<"kaggle", "-temp">>} :
              ConnectUpdateSshConfig(<<"localhost">>, 9191, alias, cCall.root)
    \/ \E pid \in ZrokPids : ProcessExits(pid)

SpecConnect == InitConnect /\ [][NextConnect]_vars

ConnectEnded == cCall.op = "connect_private" /\ cpc = "ended"

\* C28: when connect_private has ended after start_zrok_access returned,
\* however its SSH or VS Code step ended, stop_zrok_access has run and the
\* PID file is absent; when the dependency check failed no access process
\* was started and the PID file is as it was.
C28_AccessStopped ==
    /\ (ConnectEnded /\ cCall.started) =>
          /\ ~pidFile.exists
          /\ pidCall.op = "stop_zrok_access"
          /\ running = {}
    /\ (ConnectEnded /\ ~cCall.deps) =>
          /\ pidFile = cCall.before
          /\ lastStarted = cCall.beforeLast

\* the call was interrupted by Ctrl+C inside its try block
C28_Witness ==
    /\ ConnectEnded
    /\ cCall.started
    /\ cResult = Raise("KeyboardInterrupt")
    /\ ~pidFile.exists

\* C29: after a start_zrok_access or stop_zrok_access call the PID file, when
\* present, names the process recorded last, no process recorded before it
\* is still live, and a start that returned has recorded its own process.
C29_OneTracked ==
    pidCall.op \in {"start_zrok_access", "stop_zrok_access"} =>
        /\ pidFile.exists =>
              /\ ~lastStarted.isNone
              /\ Recorded(pidFile) = lastStarted
              /\ \A p \in earlier \ {lastStarted.v} : p \notin running
        /\ (pidCall.op = "start_zrok_access" /\ Returned(pidResult)) =>
              /\ pidFile = PidText(IntToStr(pidResult.val))
              /\ lastStarted = Some(pidResult.val)

\* a second process was started while the first was still live
C29_Witness ==
    /\ pidCall.op = "start_zrok_access"
    /\ Returned(pidResult)
    /\ signalled # <<>>
    /\ earlier # {}
    /\ lastStarted.v \notin earlier
    /\ pidFile.exists

(***************************************************************************)
(* disable(); enable() in setup_zrok and in main of zrok_server.py         *)
(***************************************************************************)
\* no environment is enabled yet, locally or at the service
InitSetup == InitCli /\ ~localEnabled

NextSetup ==
    \/ \E variant \in CliVariants, name \in SetupNames, dOut \in DisableOuts(localEnabled) :
          \E o1 \in OverviewOf(remoteEnv /\ dOut.rc # 0, name),
             status \in StatusOuts(LocalAfterDisable(localEnabled, zrokInstalled, dOut)),
             eOut \in EnableOuts(LocalAfterDisable(localEnabled, zrokInstalled, dOut)) :
            \E o2 \in DeleteOutcomesFor(variant, name, TRUE, o1) :
              setup_zrok(variant, name, dOut, o1, o2, status, eOut)
    \/ SessionRestart
    \/ RemoteDeleted

SpecSetup == InitSetup /\ [][NextSetup]_vars

SetupReturned == seqCall.op = "setup_zrok" /\ Returned(seqResult)

\* C30: whenever disable() and enable() both return normally, the local
\* environment is enabled and the service holds an environment for self.name;
\* enable does not return on a local status left over by a 'zrok disable'
\* that failed while the remote environment was deleted.
C30_ConsistentAfterSetup ==
    SetupReturned => (seqCall.localAfter /\ seqCall.remoteAfter)

\* C1: a None, empty or <...> credential makes the constructor raise
\* ValueError, leave no client, and make no network call and launch no
\* subprocess; any other credential is accepted and stored unchanged with the
\* environment name.
C1_CtorValidation ==
    call.op = "__init__" =>
        LET t == call.token
            placeholder == t.isNone \/ Len(t.s) = 0
                           \/ (t.s[1] = "<" /\ t.s[Len(t.s)] = ">")
        IN  /\ outcomes = <<>> /\ procs = 0
            /\ placeholder => result = Raise("ValueError") /\ client = NoClient
            /\ ~placeholder => /\ Returned(result)
                               /\ client.exists
                               /\ client.token = t
                               /\ client.name = call.name

C1_Witness ==
    /\ call.op = "__init__"
    /\ call.token = StrToken(<<"<", "t", ">">>)
    /\ result = Raise("ValueError")

C1_WitnessAccepted ==
    /\ call.op = "__init__"
    /\ call.token = StrToken(<<"<", "t">>)
    /\ client.exists

====
